---- MODULE Spec2Model ----
\* Summary orchestrator of the Knugget backend (src/src/routes/summary.ts):
\* the /summary routes acting on the User and Summary tables, one request per
\* slot, one step per database call or adapter call.  summary.ts holds two
\* versions of the router; `variant` says which one is mounted.
EXTENDS Integers, Sequences, FiniteSets, TLC

\* ------------------------------------------------------------------ bounds
MaxCredits == 2
MaxRecords == 2
MaxTokens == 4
MaxPoints == 2
MaxPointLen == 2
MaxPieces == 3
MaxTranscriptPieces == 3
MaxProviderPieces == 3

Accounts == {"A", "B"}
Requests == {"r1", "r2"}
Variants == {1, 2}

\* ----------------------------------------------------------------- strings
\* A JavaScript string is a sequence of characters; undefined and "" are both
\* falsy and both written <<>>.
YoutubePrefix == <<"y", "t", "?", "v", "=">>
DefaultTitle == <<"V", "i", "d", "e", "o", " ", "S", "u", "m", "m", "a", "r", "y">>
KeyPointsMarker == <<"K", "e", "y", " ", "P", "o", "i", "n", "t", "s", ":">>
NL == <<"\n">>

Truthy(s) == s # <<>>
OrElse(a, b) == IF Truthy(a) THEN a ELSE b

\* metadata.url || `https://www.youtube.com/watch?v=${metadata.videoId}`
VideoUrl(url, videoId) == OrElse(url, YoutubePrefix \o videoId)

RECURSIVE JoinLines(_)
JoinLines(points) ==
  IF points = <<>> THEN <<>>
  ELSE IF Len(points) = 1 THEN <<"-", " ">> \o points[1]
  ELSE <<"-", " ">> \o points[1] \o NL \o JoinLines(Tail(points))

\* `${title}\n\nKey Points:\n${keyPoints.map(p => `- ${p}`).join("\n")}\n\n${fullSummary}`
SummaryText(title, keyPoints, fullSummary) ==
  title \o NL \o NL \o KeyPointsMarker \o NL \o JoinLines(keyPoints)
        \o NL \o NL \o fullSummary

\* ------------------------------------------------- reading the stored text
Whitespace == {" ", "\n", "\t"}

RECURSIVE TrimLeft(_)
TrimLeft(s) ==
  IF s # <<>> /\ Head(s) \in Whitespace THEN TrimLeft(Tail(s)) ELSE s

RECURSIVE TrimRight(_)
TrimRight(s) ==
  IF s # <<>> /\ s[Len(s)] \in Whitespace
  THEN TrimRight(SubSeq(s, 1, Len(s) - 1))
  ELSE s

\* String.prototype.trim
Trim(s) == TrimRight(TrimLeft(s))

\* The /i flag: letters compare without case (the letters of the marker).
Fold(c) ==
  CASE c = "K" -> "k" [] c = "E" -> "e" [] c = "Y" -> "y" [] c = "P" -> "p"
    [] c = "O" -> "o" [] c = "I" -> "i" [] c = "N" -> "n" [] c = "T" -> "t"
    [] c = "S" -> "s" [] OTHER -> c

FoldAll(s) == [i \in 1..Len(s) |-> Fold(s[i])]

\* The first place at or after `from` where `sub` occurs in s; 0 when none.
IndexOf(s, sub, from) ==
  LET hits == {i \in from..(Len(s) - Len(sub) + 1) :
                 SubSeq(s, i, i + Len(sub) - 1) = sub}
  IN  IF hits = {} THEN 0 ELSE CHOOSE i \in hits : \A j \in hits : i <= j

NoMatch == [found |-> FALSE, text |-> <<>>]
Match(text) == [found |-> TRUE, text |-> text]

\* text.match(/^(.*?)\n/): what stands before the first line break.
TitleMatch(text) ==
  LET n == IndexOf(text, NL, 1)
  IN  IF n = 0 THEN NoMatch ELSE Match(SubSeq(text, 1, n - 1))

\* text.match(/Key Points:([\s\S]*?)(?=\n\n|$)/i): from the first marker, in
\* any case, to the next blank line or the end.
KeyPointsMatch(text) ==
  LET k == IndexOf(FoldAll(text), FoldAll(KeyPointsMarker), 1)
      from == k + Len(KeyPointsMarker)
      e == IndexOf(text, NL \o NL, from)
  IN  IF k = 0 THEN NoMatch
      ELSE Match(SubSeq(text, from, IF e = 0 THEN Len(text) ELSE e - 1))

\* text.match(/(?:Key Points:[\s\S]*?\n\n)([\s\S]*?)$/): what follows the
\* first blank line after the first marker, written exactly so.
FullSummaryMatch(text) ==
  LET k == IndexOf(text, KeyPointsMarker, 1)
      e == IF k = 0 THEN 0
           ELSE IndexOf(text, NL \o NL, k + Len(KeyPointsMarker))
  IN  IF e = 0 THEN NoMatch ELSE Match(SubSeq(text, e + 2, Len(text)))

\* String.prototype.split("-")
RECURSIVE SplitDash(_)
SplitDash(s) ==
  LET d == IndexOf(s, <<"-">>, 1)
  IN  IF d = 0 THEN <<s>>
      ELSE <<SubSeq(s, 1, d - 1)>> \o SplitDash(SubSeq(s, d + 1, Len(s)))

\* What the reading of key points must not be: one that leaves the blanks
\* around a point.
KeyPointsUntrimmed(captured) ==
  SelectSeq(SplitDash(captured), LAMBDA point : point # <<>>)

\* .split("-").map(point => point.trim()).filter(point => point.length > 0)
KeyPointsOf(captured) ==
  LET parts == SplitDash(captured)
      trimmed == [i \in 1..Len(parts) |-> Trim(parts[i])]
  IN  SelectSeq(trimmed, LAMBDA point : point # <<>>)

\* The stored text as the read routes hand it out: title, key points and full
\* summary; the whole text is the full summary when no marker is found.
DecodeStored(text) ==
  LET title == TitleMatch(text)
      points == KeyPointsMatch(text)
      full == FullSummaryMatch(text)
  IN  [title |-> IF title.found THEN Trim(title.text) ELSE <<>>,
       keyPoints |-> IF points.found THEN KeyPointsOf(points.text) ELSE <<>>,
       fullSummary |-> IF points.found /\ full.found THEN Trim(full.text)
                       ELSE text]

\* The same in the existing-summary branch of generate: the title is looked
\* for only when the marker is found, and defaults to the request's title.
DecodeExisting(text, requestTitle) ==
  LET title == TitleMatch(text)
      points == KeyPointsMatch(text)
      full == FullSummaryMatch(text)
  IN  [title |-> IF points.found /\ title.found THEN Trim(title.text)
                 ELSE OrElse(requestTitle, DefaultTitle),
       keyPoints |-> IF points.found THEN KeyPointsOf(points.text) ELSE <<>>,
       fullSummary |-> IF points.found /\ full.found THEN Trim(full.text)
                       ELSE text]

\* ------------------------------------------- GET /summary/:id/transcript text
Terminators == {".", "!", "?"}

\* How many characters at the head of s are (inside = TRUE) or are not
\* (inside = FALSE) sentence terminators.
Run(s, inside) ==
  LET stops == {i \in 1..Len(s) : (s[i] \in Terminators) # inside}
  IN  IF stops = {} THEN Len(s)
      ELSE (CHOOSE i \in stops : \A j \in stops : i <= j) - 1

\* text.match(/[^.!?]+[.!?]+/g) || []
RECURSIVE Sentences(_)
Sentences(s) ==
  LET rest == SubSeq(s, Run(s, TRUE) + 1, Len(s))
      words == Run(rest, FALSE)
      marks == Run(SubSeq(rest, words + 1, Len(rest)), TRUE)
  IN  IF words = 0 \/ marks = 0 THEN <<>>
      ELSE <<SubSeq(rest, 1, words + marks)>>
             \o Sentences(SubSeq(rest, words + marks + 1, Len(rest)))

Digits == <<"0", "1", "2", "3", "4", "5", "6", "7", "8", "9">>

\* Number.prototype.toString
RECURSIVE Decimal(_)
Decimal(n) ==
  IF n < 10 THEN <<Digits[n + 1]>>
  ELSE Decimal(n \div 10) \o <<Digits[(n % 10) + 1]>>

\* (i * 30).toString().padStart(2, "0")
TimeOf(i) ==
  IF Len(Decimal(i * 30)) < 2 THEN <<"0">> \o Decimal(i * 30)
  ELSE Decimal(i * 30)

\* `[00:${time}:00] ${sentence.trim()}\n`, for the sentences from index i on.
RECURSIVE TranscriptLines(_, _)
TranscriptLines(sentences, i) ==
  IF sentences = <<>> THEN <<>>
  ELSE <<"[", "0", "0", ":">> \o TimeOf(i) \o <<":", "0", "0", "]", " ">>
         \o Trim(Head(sentences)) \o NL
         \o TranscriptLines(Tail(sentences), i + 1)

\* "This is an auto-generated transcript for demo purposes:\n\n" and "No
\* transcript is available for this video.", written short.
DemoHeader == <<"d", "e", "m", "o", ":", "\n", "\n">>
NoTranscriptText == <<"n", "o", "n", "e">>

\* The transcript the route hands out: the stored one unless it is blank, else
\* one made up from the full-summary part of the stored text, else a notice.
TranscriptText(rec) ==
  LET full == FullSummaryMatch(rec.summary)
      demo == IF Truthy(rec.summary) /\ full.found /\ Truthy(full.text)
              THEN DemoHeader \o TranscriptLines(Sentences(Trim(full.text)), 0)
              ELSE rec.transcript
  IN  IF Trim(rec.transcript) # <<>> THEN rec.transcript
      ELSE IF Truthy(demo) THEN demo
      ELSE NoTranscriptText

\* ---------------------------------------------------------- generateSummary
\* The numbers of the two generateSummary files: the shortest transcript sent
\* to the provider, the length a sentence must exceed, how many sentences
\* become key points or go into the summary, and the lengths between which a
\* sentence of the provider's summary becomes a key point.
MinTranscriptLength == 100
MinSentenceLength == 20
LocalPoints == 5
FallbackPoints == 8
TopSentences == 10
DerivedMin == 15
DerivedMax == 150
DerivedPoints == 5

\* The eight emojis, each one character here, and the texts of the two files,
\* written short.
Emojis == <<"e1", "e2", "e3", "e4", "e5", "e6", "e7", "e8">>
SummaryPrefix == <<"S", ":", "\n">>
NotAvailable == <<"n", "/", "a">>
NotExtracted == <<"n", "o", "n", "e">>
UnablePoint == <<"!">>
SorryText == <<"s", "o", "r", "r", "y">>
Discusses == <<"o", "n", " ">>
AlsoCovers == <<".", " ", "a", "n", "d", " ">>
RetryText == <<"r", "e", "t", "r", "y">>
SummaryMarker == <<"S", "U", "M", "M", "A", "R", "Y", ":">>
KeyMarker == <<"K", "E", "Y", " ", "P", "O", "I", "N", "T", "S", ":">>
Bullets == {"-", "*", "bullet"}

Min(a, b) == IF a <= b THEN a ELSE b

\* String.prototype.split(/[.!?]+/)
RECURSIVE SplitSentences(_)
SplitSentences(s) ==
  LET n == Run(s, FALSE)
      rest == SubSeq(s, n + 1, Len(s))
      m == Run(rest, TRUE)
  IN  IF m = 0 THEN <<s>>
      ELSE <<SubSeq(s, 1, n)>> \o SplitSentences(SubSeq(rest, m + 1, Len(rest)))

\* String.prototype.split(sep) for a text sep
RECURSIVE SplitOn(_, _)
SplitOn(s, sep) ==
  LET d == IndexOf(s, sep, 1)
  IN  IF d = 0 THEN <<s>>
      ELSE <<SubSeq(s, 1, d - 1)>>
             \o SplitOn(SubSeq(s, d + Len(sep), Len(s)), sep)

\* String.prototype.split(/\n-\s*/)
RECURSIVE SplitItems(_)
SplitItems(s) ==
  LET d == IndexOf(s, <<"\n", "-">>, 1)
  IN  IF d = 0 THEN <<s>>
      ELSE <<SubSeq(s, 1, d - 1)>>
             \o SplitItems(TrimLeft(SubSeq(s, d + 2, Len(s))))

\* Array.prototype.join(sep)
RECURSIVE Join(_, _)
Join(items, sep) ==
  IF items = <<>> THEN <<>>
  ELSE IF Len(items) = 1 THEN items[1]
  ELSE items[1] \o sep \o Join(Tail(items), sep)

\* .filter((s, i, arr) => arr.indexOf(s) === i)
Distinct(items) ==
  LET firsts == {i \in 1..Len(items) : \A j \in 1..(i - 1) : items[j] # items[i]}
      F[i \in 0..Len(items)] ==
        IF i = 0 THEN <<>>
        ELSE IF i \in firsts THEN Append(F[i - 1], items[i]) ELSE F[i - 1]
  IN  F[Len(items)]

\* keyPoints.map((point, index) => `${emojis[index % emojis.length]} ${point}`)
WithEmojis(points) ==
  [i \in 1..Len(points) |->
     <<Emojis[((i - 1) % Len(Emojis)) + 1], " ">> \o points[i]]

\* transcript.split(/[.!?]+/).filter(s => s.trim().length > 20)
LongSentences(transcript) ==
  SelectSeq(SplitSentences(transcript),
            LAMBDA sentence : Len(Trim(sentence)) > MinSentenceLength)

\* .slice(0, Math.min(n, sentences.length)).map(s => s.trim()), duplicates out
FirstPoints(sentences, n) ==
  LET first == SubSeq(sentences, 1, Min(n, Len(sentences)))
  IN  Distinct([i \in 1..Len(first) |-> Trim(first[i])])

\* A transcript: a string, or a value of req.body.content that is no string
\* (an object, here one character that is no character of a text), whose
\* slice and split are not functions.
ObjectContent == <<"{}">>
AsTranscript(content) ==
  IF content = ObjectContent THEN [string |-> FALSE, chars |-> <<>>]
  ELSE [string |-> TRUE, chars |-> content]

\* services/generateSummary.ts: key points and summary from the sentences of
\* the transcript; the catch answers when the transcript has no split.
generateSummaryLocal(transcript, metadata) ==
  LET title == OrElse(metadata.title, DefaultTitle)
      keyPoints == FirstPoints(LongSentences(transcript.chars), LocalPoints)
      summary == Discusses \o Join(keyPoints, AlsoCovers)
  IN  IF ~transcript.string
      THEN [title |-> title, keyPoints |-> <<>>, fullSummary |-> SorryText]
      ELSE [title |-> title, keyPoints |-> keyPoints,
            fullSummary |-> OrElse(summary, RetryText)]

\* The catch of the other file: the same from the sentences, with emojis; its
\* own catch answers when the transcript has no split.
FallbackSummary(transcript, title) ==
  LET sentences == LongSentences(transcript.chars)
      keyPoints == WithEmojis(FirstPoints(sentences, FallbackPoints))
      topSentences ==
        Join(SubSeq(sentences, 1, Min(TopSentences, Len(sentences))),
             <<".", " ">>)
  IN  IF ~transcript.string
      THEN [title |-> title, keyPoints |-> <<UnablePoint>>,
            fullSummary |-> SummaryPrefix \o SorryText]
      ELSE [title |-> title, keyPoints |-> keyPoints,
            fullSummary |-> SummaryPrefix \o OrElse(topSentences, NotAvailable)]

\* line.replace(/^[-•*]\s*/, '')
StripBullet(line) ==
  IF line # <<>> /\ Head(line) \in Bullets THEN TrimLeft(Tail(line)) ELSE line

\* keyPoints[0].replace(/^[-\s]*/, '')
RECURSIVE StripDashes(_)
StripDashes(s) ==
  IF s # <<>> /\ Head(s) \in Whitespace \cup {"-"} THEN StripDashes(Tail(s))
  ELSE s

\* The parse of the provider's text: with both markers, what stands between
\* "SUMMARY:" and the next "KEY POINTS:", and the items of what follows the
\* first "KEY POINTS:"; else the first non-blank line and the others.
ParseResponse(text) ==
  LET s == IndexOf(text, SummaryMarker, 1)
      k == IF s = 0 THEN 0
           ELSE IndexOf(text, KeyMarker, s + Len(SummaryMarker))
      section == SplitOn(text, KeyMarker)[2]
      items == SelectSeq([i \in 1..Len(SplitItems(section)) |->
                            Trim(SplitItems(section)[i])],
                         LAMBDA point : point # <<>>)
      lines == SelectSeq(SplitOn(text, NL), LAMBDA line : Trim(line) # <<>>)
  IN  IF IndexOf(text, SummaryMarker, 1) # 0 /\ IndexOf(text, KeyMarker, 1) # 0
      THEN [fullSummary |->
              IF k # 0 THEN Trim(SubSeq(text, s + Len(SummaryMarker), k - 1))
              ELSE <<>>,
            keyPoints |->
              IF section = <<>> \/ items = <<>> THEN <<>>
              ELSE <<StripDashes(items[1])>> \o Tail(items)]
      ELSE IF Len(lines) > 1
      THEN [fullSummary |-> lines[1],
            keyPoints |-> [i \in 1..(Len(lines) - 1) |->
                             StripBullet(lines[i + 1])]]
      ELSE [fullSummary |-> text, keyPoints |-> <<>>]

\* .split(/[.!?]+/).map(s => s.trim()).filter(15 < length < 150).slice(0, 5)
DerivedKeyPoints(fullSummary) ==
  LET parts == SplitSentences(fullSummary)
      kept == SelectSeq([i \in 1..Len(parts) |-> Trim(parts[i])],
                        LAMBDA p : Len(p) > DerivedMin /\ Len(p) < DerivedMax)
  IN  SubSeq(kept, 1, Min(DerivedPoints, Len(kept)))

\* What is made of the parse: a summary and key points in any case, emojis.
ParsedSummary(text, title) ==
  LET parsed == ParseResponse(text)
      fullSummary == OrElse(parsed.fullSummary, NotExtracted)
      keyPoints == IF parsed.keyPoints = <<>> THEN DerivedKeyPoints(fullSummary)
                   ELSE parsed.keyPoints
  IN  [title |-> title, keyPoints |-> WithEmojis(keyPoints),
       fullSummary |-> SummaryPrefix \o fullSummary]

\* The provider's call: it throws (an API error, or the placeholder client
\* of a failed configuration), or answers with a text, empty or not.
NotCalled == [called |-> FALSE, threw |-> FALSE, text |-> <<>>]
Threw == [called |-> TRUE, threw |-> TRUE, text |-> <<>>]
Answer(text) == [called |-> TRUE, threw |-> FALSE, text |-> text]

\* The provider is called for a string of 100 characters or more.
ProviderCalled(transcript) ==
  transcript.string /\ Len(transcript.chars) >= MinTranscriptLength

\* The same file without its catch: what throws leaves no result.
generateSummaryUncaught(transcript, metadata, provider) ==
  LET title == OrElse(metadata.title, DefaultTitle)
  IN  IF ~ProviderCalled(transcript) \/ provider.threw \/ provider.text = <<>>
      THEN [title |-> <<>>, keyPoints |-> <<>>, fullSummary |-> <<>>]
      ELSE ParsedSummary(provider.text, title)

\* The file with the provider: the provider is called for a transcript of
\* 100 characters or more; whatever throws, the catch answers.
generateSummaryProvider(transcript, metadata, provider) ==
  LET title == OrElse(metadata.title, DefaultTitle)
  IN  IF ~ProviderCalled(transcript) \/ provider.threw \/ provider.text = <<>>
      THEN FallbackSummary(transcript, title)
      ELSE ParsedSummary(provider.text, title)

\* ------------------------------------------------------------------ inputs
VideoIds == {<<>>, <<"1">>, <<"2">>}
ExplicitUrls == {<<>>, YoutubePrefix \o <<"1">>}
Contents == {<<>>, <<"c">>}
Titles == {<<>>}
Transcripts == {<<>>, <<"c">>}
NoMeta == [present |-> FALSE, videoId |-> <<>>, url |-> <<>>, title |-> <<>>]
\* req.body.metadata: absent, without videoId, with a videoId alone, or with a
\* url of its own (here the url another videoId would be given).
Metadatas ==
  {NoMeta}
    \cup [present : {TRUE}, videoId : VideoIds, url : {<<>>}, title : Titles]
    \cup [present : {TRUE}, videoId : {<<"2">>}, url : ExplicitUrls \ {<<>>},
          title : Titles]

\* req.body of POST /summary/save: a field missing, or all there; keyPoints may
\* be missing even then (it is not among the required fields).
NoBody ==
  [videoId |-> <<>>, title |-> <<>>, hasKeyPoints |-> FALSE, keyPoints |-> <<>>,
   fullSummary |-> <<>>, sourceUrl |-> <<>>, transcript |-> <<>>]
FullBody(videoId, sourceUrl, transcript) ==
  [videoId |-> videoId, title |-> <<"T">>, hasKeyPoints |-> TRUE,
   keyPoints |-> << <<"p">> >>, fullSummary |-> <<"F">>,
   sourceUrl |-> sourceUrl, transcript |-> transcript]
SaveBodies ==
  {[FullBody(<<"1">>, <<>>, <<>>) EXCEPT !.videoId = <<>>],
   [FullBody(<<"1">>, <<>>, <<>>) EXCEPT !.title = <<>>],
   [FullBody(<<"1">>, <<>>, <<>>) EXCEPT !.fullSummary = <<>>],
   [FullBody(<<"1">>, <<>>, <<>>) EXCEPT !.hasKeyPoints = FALSE,
                                         !.keyPoints = <<>>]}
    \cup {FullBody(v, <<>>, t) : v \in VideoIds \ {<<>>}, t \in Transcripts}
    \cup {FullBody(<<"2">>, u, <<>>) : u \in ExplicitUrls \ {<<>>}}

\* ?page=&limit= of GET /summary after parseInt(...) || default.
Pages == {1, 2}
Limits == {1, 10}

\* What generateSummary can hand back: the title of the request or the default,
\* a list of key points (possibly empty) and a non-empty summary text.
NoSummary == [title |-> <<>>, keyPoints |-> <<>>, fullSummary |-> <<>>]
AdapterResults(content, metadata) ==
  {[title |-> OrElse(metadata.title, DefaultTitle),
    keyPoints |-> kp,
    fullSummary |-> <<"S">>] : kp \in {<< <<"k">> >>}}

\* Transcripts: up to MaxTranscriptPieces pieces, each a sentence of 21
\* characters, a letter, a full stop or a space, all shorter than 100
\* characters; one of 100 characters; and a content that is no string.
Repeat(c, n) == [i \in 1..n |-> c]

RECURSIVE ConcatsOf(_, _)
ConcatsOf(pieces, n) ==
  IF n = 0 THEN {<<>>}
  ELSE LET shorter == ConcatsOf(pieces, n - 1)
       IN  shorter \cup {t \o p : t \in shorter, p \in pieces}

TranscriptPieces ==
  {Repeat("s", MinSentenceLength + 1), <<"b">>, <<".">>, <<" ">>}
ShortTranscripts ==
  {t \in ConcatsOf(TranscriptPieces, MaxTranscriptPieces) :
     Len(t) < MinTranscriptLength}
LongTranscripts == {Repeat("c", MinTranscriptLength)}
ServiceContents == ShortTranscripts \cup LongTranscripts \cup {ObjectContent}

\* What the provider answers: it throws, or a text of up to MaxProviderPieces
\* pieces, each a marker, a line break, a bullet, a space, a letter or a
\* sentence of 16 characters.
ProviderPieces ==
  {SummaryMarker, KeyMarker, NL, <<"-">>, <<"*">>, <<" ">>, <<"x">>,
   Repeat("d", DerivedMin + 1)}
ProviderTexts == ConcatsOf(ProviderPieces, MaxProviderPieces)
ProviderOutcomes == {Threw} \cup {Answer(text) : text \in ProviderTexts}
Files == {"services/generateSummary.ts", "part_000"}

\* Key points a request can carry: up to MaxPoints of them, each of one to
\* MaxPointLen characters, a letter or a hyphen.
PointChars == {"a", "-"}

RECURSIVE StringsOver(_, _)
StringsOver(chars, n) ==
  IF n = 0 THEN {<<>>}
  ELSE LET shorter == StringsOver(chars, n - 1)
       IN  shorter \cup {t \o <<c>> : t \in shorter, c \in chars}

Points == StringsOver(PointChars, MaxPointLen) \ {<<>>}

RECURSIVE ListsOf(_, _)
ListsOf(items, n) ==
  IF n = 0 THEN {<<>>}
  ELSE LET shorter == ListsOf(items, n - 1)
       IN  shorter \cup {Append(l, x) : l \in shorter, x \in items}

\* req.body of POST /summary/save with every field there, for the video "1".
CodecBodies ==
  {[FullBody(<<"1">>, <<>>, <<>>) EXCEPT !.keyPoints = keyPoints] :
     keyPoints \in ListsOf(Points, MaxPoints) \ {<<>>}}

\* metadata of POST /summary/generate for the video "1", with a title or not.
CodecMetadatas ==
  [present : {TRUE}, videoId : {<<"1">>}, url : {<<>>},
   title : {<<>>, <<"M">>}]

\* Texts the summary column of a row can hold, whoever wrote it: up to
\* MaxPieces pieces, each the marker, the marker in lower case, a line break,
\* a hyphen, a blank or a letter.
Pieces ==
  {KeyPointsMarker, FoldAll(KeyPointsMarker), NL, <<"-">>, <<" ">>, <<"a">>}

RECURSIVE TextsOf(_)
TextsOf(n) ==
  IF n = 0 THEN {<<>>}
  ELSE LET shorter == TextsOf(n - 1)
       IN  shorter \cup {t \o piece : t \in shorter, piece \in Pieces}

\* What the encoder writes for two request bodies, one with a hyphen in a
\* key point.
EncodedTexts ==
  {SummaryText(body.title, body.keyPoints, body.fullSummary) :
     body \in {FullBody(<<"1">>, <<>>, <<>>),
               [FullBody(<<"1">>, <<>>, <<>>)
                  EXCEPT !.keyPoints = << <<"a", "-">>, <<"q">> >>]}}

StoredTexts == TextsOf(MaxPieces) \cup EncodedTexts

\* req.body of the auth routes: a field is a string, "" when missing.
Emails == {"a@x", "b@x"}
Passwords == {"p", "q"}
Names == {"n"}

\* credits: 10, the balance a new account starts with.
SignupCredits == 10

\* bcrypt: hashPassword(password), and comparePasswords(password, hash), which
\* tells whether the hash is the one of the password.
hashPassword(password) == <<"bcrypt", password>>
comparePasswords(password, hashedPassword) ==
  hashedPassword = hashPassword(password)

\* jwt.sign({ userId, email }, JWT_SECRET): what verifyToken reads back.
NoToken == [userId |-> "none", email |-> ""]
AccessToken(userId, email) == [userId |-> userId, email |-> email]

\* req.headers.authorization: absent, or a scheme and a token. A token has
\* its claims, who signed it ("server": jwt.sign with JWT_SECRET in
\* generateTokens; "provider": the external identity service; "none": nobody
\* who is trusted), the number of the generateTokens call that made it (0 when
\* none did) and whether its expiry has passed when it is presented.
NoHeader ==
  [scheme |-> "none", token |-> NoToken, issuer |-> "none", issue |-> 0,
   expired |-> FALSE]
Header(scheme, token, issuer, issue, expired) ==
  [scheme |-> scheme, token |-> token, issuer |-> issuer, issue |-> issue,
   expired |-> expired]

\* A row of the User table without its id and its credits: refreshToken 0 is
\* null, a refresh token is the number of the generateTokens call that made it
\* (crypto.randomBytes(40): a value no earlier call returned); lastLogin 0 is
\* null, new Date() is the number of tokens generated by then.
UserRow(email, name, passwordHash) ==
  [email |-> email, name |-> name, passwordHash |-> passwordHash,
   refreshToken |-> 0, lastLogin |-> 0]

\* The accounts the summary routes are called by: signed up before, each with
\* an email of its own.
EmailOf(a) == IF a = "A" THEN "a@x" ELSE "b@x"

\* ------------------------------------------------------------------- state
VARIABLES
  variant,    \* which version of the router is mounted
  credits,    \* User.credits, per account
  records,    \* the Summary table
  nextId,     \* ids handed out so far (uuid: fresh, never reused)
  pc,         \* per request slot: the call it is waiting for
  rq,         \* per request slot: the request and the handler's locals
  resp,       \* per request slot: the response sent
  hist,       \* per request slot: what the store held when the request began
  lastDone,   \* the request answered last
  users,      \* the User table, per account: the columns the auth routes use
  issued      \* generateTokens calls so far: the account of each refresh token

vars ==
  <<variant, credits, records, nextId, pc, rq, resp, hist, lastDone, users,
    issued>>

NoReq ==
  [op |-> "none", user |-> "none", content |-> <<>>, metadata |-> NoMeta,
   body |-> NoBody, videoUrl |-> <<>>, id |-> 0, page |-> 0, limit |-> 0,
   userCredits |-> 0, summary |-> NoSummary, pending |-> {}, listed |-> <<>>,
   total |-> -1, adapterCalls |-> 0, failed |-> {},
   email |-> "", password |-> "", name |-> "", refreshToken |-> 0,
   tokens |-> [accessToken |-> NoToken, refreshToken |-> 0],
   formatted |-> <<>>,
   service |-> [file |-> "none", provider |-> NotCalled],
   header |-> NoHeader]

\* errorOnly: the body is { error: "..." } and nothing else, without a success
\* key.
NoResp ==
  [status |-> 0, success |-> FALSE, id |-> 0, alreadySaved |-> "absent",
   creditsRemaining |-> -1, summary |-> NoSummary, transcript |-> <<>>,
   ids |-> <<>>, total |-> -1, page |-> 0, limit |-> 0,
   token |-> NoToken, refreshToken |-> 0, user |-> "none",
   summaries |-> <<>>, errorOnly |-> FALSE]

\* res.status(s).json({ error: "..." })
ErrorOnly(status) == [NoResp EXCEPT !.status = status, !.errorOnly = TRUE]

NoHist ==
  [bal0 |-> 0, recs0 |-> {}, prev |-> "none", users0 |-> <<>>,
   credits0 |-> <<>>, issued0 |-> 0]

Max(a, b) == IF a >= b THEN a ELSE b

Init ==
  /\ variant \in Variants
  /\ \E c \in 0..MaxCredits : credits = [a \in Accounts |-> c]
  /\ records = {}
  /\ nextId = 0
  /\ pc = [r \in Requests |-> "idle"]
  /\ rq = [r \in Requests |-> NoReq]
  /\ resp = [r \in Requests |-> NoResp]
  /\ hist = [r \in Requests |-> NoHist]
  /\ lastDone = "none"
  /\ users = [a \in Accounts |-> UserRow(EmailOf(a), "n", hashPassword("p"))]
  /\ issued = <<>>

\* ------------------------------------------------------------ request flow
\* A call threw (one of the persistence layer, or keyPoints.map on a missing
\* keyPoints): the request remembers which.
Failed(request, call) == [request EXCEPT !.failed = @ \cup {call}]

\* What is left of a request once it is answered: what it asked for; the
\* handler's locals are gone.
Answered(request) ==
  [NoReq EXCEPT !.op = request.op, !.user = request.user,
                !.metadata = [NoMeta EXCEPT !.title = request.metadata.title],
                !.videoUrl = request.videoUrl, !.id = request.id,
                !.adapterCalls = request.adapterCalls,
                !.failed = request.failed, !.email = request.email,
                !.password = request.password, !.name = request.name,
                !.refreshToken = request.refreshToken,
                !.header = request.header]

\* res.status(s).json(...): the request is answered.
Respond(r, request, response) ==
  /\ pc' = [pc EXCEPT ![r] = "done"]
  /\ rq' = [rq EXCEPT ![r] = Answered(request)]
  /\ resp' = [resp EXCEPT ![r] = response]
  /\ lastDone' = r

\* The handler goes on to its next await with its locals.
Goto(r, request, label) ==
  /\ pc' = [pc EXCEPT ![r] = label]
  /\ rq' = [rq EXCEPT ![r] = request]
  /\ UNCHANGED <<resp, lastDone>>

\* A request enters its handler, as the authenticated caller's or handed on
\* by the middleware: its slot remembers the caller's balance, the
\* records stored, and the request answered just before, if its answer is
\* still held.
Begin(r, u) ==
  /\ pc[r] = "idle" \/ (pc[r] = "mw_next" /\ rq[r].user = u)
  /\ hist' = [hist EXCEPT ![r] =
       [bal0 |-> IF u \in DOMAIN credits THEN credits[u] ELSE 0,
        recs0 |-> records,
        prev |-> IF lastDone # "none" /\ lastDone # r /\ pc[lastDone] = "done"
                 THEN lastDone ELSE "none",
        users0 |-> users, credits0 |-> credits, issued0 |-> Len(issued)]]

\* The client has read the answer; the slot is free again.
Retire(r) ==
  /\ pc[r] = "done"
  /\ pc' = [pc EXCEPT ![r] = "idle"]
  /\ rq' = [rq EXCEPT ![r] = NoReq]
  /\ resp' = [resp EXCEPT ![r] = NoResp]
  /\ hist' = [hist EXCEPT ![r] = NoHist]
  /\ lastDone' = IF lastDone = r THEN "none" ELSE lastDone
  /\ UNCHANGED <<users, issued, variant, credits, records, nextId>>

\* ----------------------------------------------------------- store queries
\* prisma.summary.findFirst({ where: { videoUrl } })
FindByUrl(videoUrl) == {rec \in records : rec.videoUrl = videoUrl}

\* prisma.summary.findFirst({ where: { videoUrl, userId } })
FindByUrlAndUser(videoUrl, userId) ==
  {rec \in records : rec.videoUrl = videoUrl /\ rec.userId = userId}

\* prisma.summary.create({ data }): a fresh id, later than every earlier one.
\* The first version's creates name no title and no videoId, columns of the
\* schema the second version writes; they are taken as written for the schema
\* of their time, where a create can succeed.
NewRecord(userId, videoUrl, summary, transcript) ==
  [id |-> nextId + 1, userId |-> userId, videoUrl |-> videoUrl,
   summary |-> summary, transcript |-> transcript]

\* The table after the create with a unique index on (userId, videoUrl): a row
\* of a pair already stored is not added.
CreateUnique(row) ==
  IF FindByUrlAndUser(row.videoUrl, row.userId) # {}
  THEN records ELSE records \cup {row}

\* The table after the create: model Summary has @id on id alone and no
\* @@unique, so the row is added whatever is stored.
Create(row) == records \cup {row}

\* ---------------------------------------------------- POST /summary/generate
GenerateRequest(u, content, metadata) ==
  [NoReq EXCEPT !.op = "generate", !.user = u, !.content = content,
                !.metadata = metadata,
                !.videoUrl = VideoUrl(metadata.url, metadata.videoId)]

\* The handler without its check of the request's fields.
GenerateStartUnchecked(r, u, content, metadata) ==
  /\ Begin(r, u)
  /\ Goto(r, GenerateRequest(u, content, metadata), "g_find")
  /\ UNCHANGED <<users, issued, variant, credits, records, nextId>>

\* Both versions: the checks before the first await.
GenerateStart(r, u, content, metadata) ==
  /\ Begin(r, u)
  /\ IF ~Truthy(content) \/ ~metadata.present \/ ~Truthy(metadata.videoId)
     THEN Respond(r, [NoReq EXCEPT !.op = "generate", !.user = u],
                  [NoResp EXCEPT !.status = 400])
     ELSE Goto(r, GenerateRequest(u, content, metadata), "g_find")
  /\ UNCHANGED <<users, issued, variant, credits, records, nextId>>

\* The answer of the existing-summary branch.
ExistingResponse1(rec, requestTitle) ==
  [NoResp EXCEPT !.status = 200, !.success = TRUE, !.id = rec.id,
                 !.summary = DecodeExisting(rec.summary, requestTitle)]

ExistingResponse2(rec, requestTitle) ==
  [NoResp EXCEPT !.status = 200, !.success = TRUE, !.id = rec.id,
                 !.summary = DecodeExisting(rec.summary, requestTitle),
                 !.alreadySaved = "true"]

\* First version: the lookup is by videoUrl alone; a failed lookup is logged
\* and the handler goes on.
GenerateFindExisting1(r) ==
  /\ variant = 1
  /\ pc[r] = "g_find"
  /\ \E ok \in BOOLEAN :
       IF ~ok
       THEN Goto(r, Failed(rq[r], "find"), "g_credits")
       ELSE IF FindByUrl(rq[r].videoUrl) # {}
       THEN \E rec \in FindByUrl(rq[r].videoUrl) :
              Respond(r, rq[r],
                      ExistingResponse1(rec, rq[r].metadata.title))
       ELSE Goto(r, rq[r], "g_credits")
  /\ UNCHANGED <<users, issued, variant, credits, records, nextId, hist>>

\* What the existing-summary branch must not be: one that takes a credit for
\* the stored record it returns.
GenerateFindExistingCharged(r) ==
  /\ variant = 2
  /\ pc[r] = "g_find"
  /\ \E ok \in BOOLEAN :
       IF ~ok
       THEN Goto(r, Failed(rq[r], "find"), "g_credits") /\ UNCHANGED credits
       ELSE IF FindByUrlAndUser(rq[r].videoUrl, rq[r].user) # {}
       THEN /\ \E rec \in FindByUrlAndUser(rq[r].videoUrl, rq[r].user) :
                 Respond(r, rq[r],
                         ExistingResponse2(rec, rq[r].metadata.title))
            /\ credits' = [credits EXCEPT ![rq[r].user] = @ - 1]
       ELSE Goto(r, rq[r], "g_credits") /\ UNCHANGED credits
  /\ UNCHANGED <<users, issued, variant, records, nextId, hist>>

\* Second version: the lookup is by videoUrl and userId.
GenerateFindExisting2(r) ==
  /\ variant = 2
  /\ pc[r] = "g_find"
  /\ \E ok \in BOOLEAN :
       IF ~ok
       THEN Goto(r, Failed(rq[r], "find"), "g_credits")
       ELSE IF FindByUrlAndUser(rq[r].videoUrl, rq[r].user) # {}
       THEN \E rec \in FindByUrlAndUser(rq[r].videoUrl, rq[r].user) :
              Respond(r, rq[r],
                      ExistingResponse2(rec, rq[r].metadata.title))
       ELSE Goto(r, rq[r], "g_credits")
  /\ UNCHANGED <<users, issued, variant, credits, records, nextId, hist>>

\* First version: the balance is read only to report it; a failed read counts
\* as 0 and nothing stops a caller without credits.
GenerateGetCredits1(r) ==
  /\ variant = 1
  /\ pc[r] = "g_credits"
  /\ \E ok \in BOOLEAN :
       IF ~ok
       THEN Goto(r, [Failed(rq[r], "credits") EXCEPT !.userCredits = 0],
                 "g_adapter")
       ELSE IF rq[r].user \notin DOMAIN credits
       THEN Respond(r, rq[r], [NoResp EXCEPT !.status = 404])
       ELSE Goto(r, [rq[r] EXCEPT !.userCredits = credits[rq[r].user]],
                 "g_adapter")
  /\ UNCHANGED <<users, issued, variant, credits, records, nextId, hist>>

\* Second version: 403 without credits, 500 when the balance cannot be read.
GenerateGetCredits2(r) ==
  /\ variant = 2
  /\ pc[r] = "g_credits"
  /\ \E ok \in BOOLEAN :
       IF ~ok
       THEN Respond(r, Failed(rq[r], "credits"), [NoResp EXCEPT !.status = 500])
       ELSE IF rq[r].user \notin DOMAIN credits
       THEN Respond(r, rq[r], [NoResp EXCEPT !.status = 404])
       ELSE IF credits[rq[r].user] <= 0
       THEN Respond(r, rq[r], [NoResp EXCEPT !.status = 403])
       ELSE Goto(r, [rq[r] EXCEPT !.userCredits = credits[rq[r].user]],
                 "g_adapter")
  /\ UNCHANGED <<users, issued, variant, credits, records, nextId, hist>>

\* Both versions: await generateSummary(content, metadata), then the check of
\* summary.fullSummary.
GenerateCallAdapter(r) ==
  /\ pc[r] = "g_adapter"
  /\ \E s \in AdapterResults(rq[r].content, rq[r].metadata) :
       LET called == [rq[r] EXCEPT !.summary = s,
                                   !.adapterCalls = rq[r].adapterCalls + 1]
       IN  IF ~Truthy(s.fullSummary)
           THEN Respond(r, called, [NoResp EXCEPT !.status = 500])
           ELSE Goto(r, called, "g_persist")
  /\ UNCHANGED <<users, issued, variant, credits, records, nextId, hist>>

\* The same step with generateSummary of one of the two files, computed from
\* the content and from what the provider does when it is called.
generateSummary(file, content, metadata, provider) ==
  IF file = "part_000"
  THEN generateSummaryProvider(AsTranscript(content), metadata, provider)
  ELSE generateSummaryLocal(AsTranscript(content), metadata)

GenerateCallService(r) ==
  /\ pc[r] = "g_adapter"
  /\ \E file \in Files :
       \E provider \in
            IF file = "part_000" /\ ProviderCalled(AsTranscript(rq[r].content))
            THEN ProviderOutcomes ELSE {NotCalled} :
         LET s == generateSummary(file, rq[r].content, rq[r].metadata, provider)
             called == [rq[r] EXCEPT
                          !.summary = s,
                          !.adapterCalls = rq[r].adapterCalls + 1,
                          !.service = [file |-> file, provider |-> provider]]
         IN  IF ~Truthy(s.fullSummary)
             THEN Respond(r, called, [NoResp EXCEPT !.status = 500])
             ELSE Goto(r, called, "g_persist")
  /\ UNCHANGED <<users, issued, variant, credits, records, nextId, hist>>

\* The same step when no provider is called: generateSummary of
\* services/generateSummary.ts, and that of part_000 when it returns before
\* the call.
GenerateCallUnasked(r) ==
  /\ pc[r] = "g_adapter"
  /\ \E file \in Files :
       /\ file = "part_000" => ~ProviderCalled(AsTranscript(rq[r].content))
       /\ LET s == generateSummary(file, rq[r].content, rq[r].metadata,
                                   NotCalled)
              called == [rq[r] EXCEPT
                           !.summary = s,
                           !.adapterCalls = rq[r].adapterCalls + 1,
                           !.service = [file |-> file, provider |-> NotCalled]]
          IN  IF ~Truthy(s.fullSummary)
              THEN Respond(r, called, [NoResp EXCEPT !.status = 500])
              ELSE Goto(r, called, "g_persist")
  /\ UNCHANGED <<users, issued, variant, credits, records, nextId, hist>>

\* The same step of part_000 in its two halves: openai.chat.completions.create
\* is called (no timeout, no signal, no race with a timer is given) and the
\* handler awaits; the promise settles, if the provider ever answers or the
\* connection ever fails, and the handler goes on.
GenerateAskProvider(r) ==
  /\ pc[r] = "g_adapter"
  /\ ProviderCalled(AsTranscript(rq[r].content))
  /\ Goto(r, [rq[r] EXCEPT !.adapterCalls = rq[r].adapterCalls + 1,
                            !.service = [file |-> "part_000",
                                         provider |-> NotCalled]],
          "g_await")
  /\ UNCHANGED <<users, issued, variant, credits, records, nextId, hist>>

GenerateProviderSettles(r) ==
  /\ pc[r] = "g_await"
  /\ \E provider \in ProviderOutcomes :
       LET s == generateSummary("part_000", rq[r].content, rq[r].metadata,
                                provider)
           called == [rq[r] EXCEPT
                        !.summary = s,
                        !.service = [file |-> "part_000",
                                     provider |-> provider]]
       IN  IF ~Truthy(s.fullSummary)
           THEN Respond(r, called, [NoResp EXCEPT !.status = 500])
           ELSE Goto(r, called, "g_persist")
  /\ UNCHANGED <<users, issued, variant, credits, records, nextId, hist>>

\* The answer with a newly generated summary.
GeneratedResponse1(r, newId) ==
  [NoResp EXCEPT !.status = 200, !.success = TRUE, !.id = newId,
                 !.summary = rq[r].summary,
                 !.creditsRemaining = Max(0, rq[r].userCredits - 1)]

GeneratedResponse2(r) ==
  [NoResp EXCEPT !.status = 200, !.success = TRUE,
                 !.summary = rq[r].summary, !.alreadySaved = "false",
                 !.creditsRemaining = Max(0, rq[r].userCredits - 1)]

\* First version: prisma.$transaction creates the record and decrements the
\* balance, or does neither; a failure is logged and the summary is returned
\* all the same, without an id.
GeneratePersist1(r) ==
  /\ variant = 1
  /\ pc[r] = "g_persist"
  /\ \E ok \in BOOLEAN :
       IF ok /\ nextId < MaxRecords /\ rq[r].user \in DOMAIN credits
       THEN /\ records' =
                 Create(NewRecord(rq[r].user, rq[r].videoUrl,
                            SummaryText(rq[r].summary.title,
                                        rq[r].summary.keyPoints,
                                        rq[r].summary.fullSummary),
                            rq[r].content))
            /\ nextId' = nextId + 1
            /\ credits' = [credits EXCEPT ![rq[r].user] = @ - 1]
            /\ Respond(r, rq[r], GeneratedResponse1(r, nextId + 1))
       ELSE /\ UNCHANGED <<records, nextId, credits>>
            /\ Respond(r, Failed(rq[r], "persist"), GeneratedResponse1(r, 0))
  /\ UNCHANGED <<users, issued, variant, hist>>

\* Second version: only the balance is decremented, nothing is stored; a
\* failed update is logged and the summary is returned all the same.
GeneratePersist2(r) ==
  /\ variant = 2
  /\ pc[r] = "g_persist"
  /\ \E ok \in BOOLEAN :
       IF ok /\ rq[r].user \in DOMAIN credits
       THEN /\ credits' = [credits EXCEPT ![rq[r].user] = @ - 1]
            /\ Respond(r, rq[r], GeneratedResponse2(r))
       ELSE /\ UNCHANGED credits
            /\ Respond(r, Failed(rq[r], "persist"), GeneratedResponse2(r))
  /\ UNCHANGED <<users, issued, variant, records, nextId, hist>>

\* -------------------------------------------------------- POST /summary/save
SaveRequest(u, body) ==
  [NoReq EXCEPT !.op = "save", !.user = u, !.body = body,
                !.videoUrl = VideoUrl(body.sourceUrl, body.videoId)]

MissingSaveField(body) ==
  ~Truthy(body.videoId) \/ ~Truthy(body.title) \/ ~Truthy(body.fullSummary)

\* First version: no lookup; keyPoints.map throws on a missing keyPoints, which
\* the handler's catch answers with 500.
SaveStart1(r, u, body) ==
  /\ variant = 1
  /\ Begin(r, u)
  /\ IF MissingSaveField(body)
     THEN Respond(r, [NoReq EXCEPT !.op = "save", !.user = u],
                  [NoResp EXCEPT !.status = 400])
     ELSE IF ~body.hasKeyPoints
     THEN Respond(r, Failed(SaveRequest(u, body), "keyPoints"),
                  [NoResp EXCEPT !.status = 500])
     ELSE Goto(r, SaveRequest(u, body), "s_create")
  /\ UNCHANGED <<users, issued, variant, credits, records, nextId>>

SaveCreate1(r) ==
  /\ variant = 1
  /\ pc[r] = "s_create"
  /\ \E ok \in BOOLEAN :
       IF ok /\ nextId < MaxRecords
       THEN /\ records' =
                 Create(NewRecord(rq[r].user, rq[r].videoUrl,
                            SummaryText(rq[r].body.title, rq[r].body.keyPoints,
                                        rq[r].body.fullSummary),
                            <<>>))
            /\ nextId' = nextId + 1
            /\ Respond(r, rq[r], [NoResp EXCEPT !.status = 200, !.success = TRUE,
                                                !.id = nextId + 1])
       ELSE /\ UNCHANGED <<records, nextId>>
            /\ Respond(r, Failed(rq[r], "create"),
                       [NoResp EXCEPT !.status = 500])
  /\ UNCHANGED <<users, issued, variant, credits, hist>>

\* What the existing branch of the save must not be: one that writes the
\* request's summary over the stored row.
SaveFindExistingOverwrites(r) ==
  /\ variant = 2
  /\ pc[r] = "s_find"
  /\ \E ok \in BOOLEAN :
       IF ~ok
       THEN /\ Respond(r, Failed(rq[r], "find"), [NoResp EXCEPT !.status = 500])
            /\ UNCHANGED records
       ELSE IF FindByUrlAndUser(rq[r].videoUrl, rq[r].user) # {}
       THEN \E rec \in FindByUrlAndUser(rq[r].videoUrl, rq[r].user) :
              /\ records' = (records \ {rec}) \cup
                   {[rec EXCEPT !.summary =
                       SummaryText(rq[r].body.title, rq[r].body.keyPoints,
                                   rq[r].body.fullSummary)]}
              /\ Respond(r, rq[r], [NoResp EXCEPT !.status = 200, !.success = TRUE,
                                               !.id = rec.id,
                                               !.alreadySaved = "true"])
       ELSE /\ UNCHANGED records
            /\ IF ~rq[r].body.hasKeyPoints
               THEN Respond(r, Failed(rq[r], "keyPoints"),
                            [NoResp EXCEPT !.status = 500])
               ELSE Goto(r, rq[r], "s_create")
  /\ UNCHANGED <<users, issued, variant, credits, nextId, hist>>

\* Second version: the record of (videoUrl, userId) is looked up first.
SaveStart2(r, u, body) ==
  /\ variant = 2
  /\ Begin(r, u)
  /\ IF MissingSaveField(body)
     THEN Respond(r, [NoReq EXCEPT !.op = "save", !.user = u],
                  [NoResp EXCEPT !.status = 400])
     ELSE Goto(r, SaveRequest(u, body), "s_find")
  /\ UNCHANGED <<users, issued, variant, credits, records, nextId>>

SaveFindExisting2(r) ==
  /\ variant = 2
  /\ pc[r] = "s_find"
  /\ \E ok \in BOOLEAN :
       IF ~ok
       THEN Respond(r, Failed(rq[r], "find"), [NoResp EXCEPT !.status = 500])
       ELSE IF FindByUrlAndUser(rq[r].videoUrl, rq[r].user) # {}
       THEN \E rec \in FindByUrlAndUser(rq[r].videoUrl, rq[r].user) :
              Respond(r, rq[r], [NoResp EXCEPT !.status = 200, !.success = TRUE,
                                               !.id = rec.id,
                                               !.alreadySaved = "true"])
       ELSE IF ~rq[r].body.hasKeyPoints
       THEN Respond(r, Failed(rq[r], "keyPoints"),
                    [NoResp EXCEPT !.status = 500])
       ELSE Goto(r, rq[r], "s_create")
  /\ UNCHANGED <<users, issued, variant, credits, records, nextId, hist>>

SaveCreate2(r) ==
  /\ variant = 2
  /\ pc[r] = "s_create"
  /\ \E ok \in BOOLEAN :
       IF ok /\ nextId < MaxRecords
       THEN /\ records' =
                 Create(NewRecord(rq[r].user, rq[r].videoUrl,
                            SummaryText(rq[r].body.title, rq[r].body.keyPoints,
                                        rq[r].body.fullSummary),
                            rq[r].body.transcript))
            /\ nextId' = nextId + 1
            /\ Respond(r, rq[r], [NoResp EXCEPT !.status = 200, !.success = TRUE,
                                                !.id = nextId + 1,
                                                !.alreadySaved = "true"])
       ELSE /\ UNCHANGED <<records, nextId>>
            /\ Respond(r, Failed(rq[r], "create"),
                       [NoResp EXCEPT !.status = 500])
  /\ UNCHANGED <<users, issued, variant, credits, hist>>

\* ------------------------------------------------------------- GET /summary
\* The ids of a set of records, newest first (orderBy createdAt desc).
RECURSIVE NewestFirst(_)
NewestFirst(recs) ==
  IF recs = {} THEN <<>>
  ELSE LET newest == CHOOSE rec \in recs : \A other \in recs : other.id <= rec.id
       IN  <<newest.id>> \o NewestFirst(recs \ {newest})

\* skip and take of a sequence.
Page(seq, skip, take) ==
  SubSeq(seq, skip + 1, IF skip + take <= Len(seq) THEN skip + take ELSE Len(seq))

\* What the listing must not be: one over the records of every account.
FindManyAnyUser(userId, skip, take) == Page(NewestFirst(records), skip, take)

\* prisma.summary.findMany({ where: { userId }, orderBy, skip, take })
FindManyByUser(userId, skip, take) ==
  Page(NewestFirst({rec \in records : rec.userId = userId}), skip, take)

\* prisma.summary.count({ where: { userId } })
CountByUser(userId) == Cardinality({rec \in records : rec.userId = userId})

\* summaries.map(...): the rows found, each with its stored text read.
FormatSummaries(ids) ==
  [i \in 1..Len(ids) |->
     DecodeStored((CHOOSE rec \in records : rec.id = ids[i]).summary)]

ListFailure ==
  [NoResp EXCEPT !.status = 500, !.total = 0, !.page = 1, !.limit = 10]

ListStart(r, u, page, limit) ==
  /\ Begin(r, u)
  /\ Goto(r, [NoReq EXCEPT !.op = "list", !.user = u, !.page = page,
                            !.limit = limit,
                            !.pending = {"findMany", "count"}], "l_query")
  /\ UNCHANGED <<users, issued, variant, credits, records, nextId>>

\* Promise.all of the two queries: each runs on its own, in either order; the
\* first to fail rejects the whole and the handler's catch answers.
ListAnswer(r, request) ==
  IF request.pending = {}
  THEN Respond(r, request,
               [NoResp EXCEPT !.status = 200, !.success = TRUE,
                              !.ids = request.listed,
                              !.summaries = request.formatted,
                              !.total = request.total,
                              !.page = request.page, !.limit = request.limit])
  ELSE Goto(r, request, "l_query")

ListFindMany(r) ==
  /\ pc[r] = "l_query"
  /\ "findMany" \in rq[r].pending
  /\ \E ok \in BOOLEAN :
       IF ~ok
       THEN Respond(r, Failed(rq[r], "findMany"), ListFailure)
       ELSE LET found == FindManyByUser(rq[r].user,
                                        (rq[r].page - 1) * rq[r].limit,
                                        rq[r].limit)
            IN  ListAnswer(r, [rq[r] EXCEPT !.pending = @ \ {"findMany"},
                                            !.listed = found,
                                            !.formatted = FormatSummaries(found)])
  /\ UNCHANGED <<users, issued, variant, credits, records, nextId, hist>>

ListCount(r) ==
  /\ pc[r] = "l_query"
  /\ "count" \in rq[r].pending
  /\ \E ok \in BOOLEAN :
       IF ~ok
       THEN Respond(r, Failed(rq[r], "count"), ListFailure)
       ELSE ListAnswer(r, [rq[r] EXCEPT !.pending = @ \ {"count"},
                                        !.total = CountByUser(rq[r].user)])
  /\ UNCHANGED <<users, issued, variant, credits, records, nextId, hist>>

\* --------------------------------------------------------- GET /summary/:id
\* What the lookup by id must not be: one without the ownership filter.
FindByIdAnyUser(id, userId) == {rec \in records : rec.id = id}

\* prisma.summary.findFirst({ where: { id, userId } })
FindByIdAndUser(id, userId) ==
  {rec \in records : rec.id = id /\ rec.userId = userId}

GetStart(r, u, id) ==
  /\ Begin(r, u)
  /\ Goto(r, [NoReq EXCEPT !.op = "get", !.user = u, !.id = id], "get_find")
  /\ UNCHANGED <<users, issued, variant, credits, records, nextId>>

\* Both versions: 404 unless the caller owns a record of that id.
GetFind(r) ==
  /\ pc[r] = "get_find"
  /\ \E ok \in BOOLEAN :
       IF ~ok
       THEN Respond(r, Failed(rq[r], "find"), [NoResp EXCEPT !.status = 500])
       ELSE IF FindByIdAndUser(rq[r].id, rq[r].user) = {}
       THEN Respond(r, rq[r], [NoResp EXCEPT !.status = 404])
       ELSE \E rec \in FindByIdAndUser(rq[r].id, rq[r].user) :
              Respond(r, rq[r],
                      [NoResp EXCEPT !.status = 200, !.success = TRUE,
                                     !.id = rec.id,
                                     !.summary = DecodeStored(rec.summary),
                                     !.transcript =
                                       IF variant = 2 THEN rec.transcript
                                       ELSE <<>>])
  /\ UNCHANGED <<users, issued, variant, credits, records, nextId, hist>>

\* ------------------------------------------------------ DELETE /summary/:id
DeleteStart(r, u, id) ==
  /\ Begin(r, u)
  /\ Goto(r, [NoReq EXCEPT !.op = "delete", !.user = u, !.id = id], "d_find")
  /\ UNCHANGED <<users, issued, variant, credits, records, nextId>>

\* Both versions: the ownership check.
DeleteFind(r) ==
  /\ pc[r] = "d_find"
  /\ \E ok \in BOOLEAN :
       IF ~ok
       THEN Respond(r, Failed(rq[r], "find"), [NoResp EXCEPT !.status = 500])
       ELSE IF FindByIdAndUser(rq[r].id, rq[r].user) = {}
       THEN Respond(r, rq[r], [NoResp EXCEPT !.status = 404])
       ELSE Goto(r, rq[r], "d_delete")
  /\ UNCHANGED <<users, issued, variant, credits, records, nextId, hist>>

\* prisma.summary.delete({ where: { id } }) throws when the row is gone
\* ("gone": the record to delete does not exist), as it does when the
\* persistence layer fails ("delete"); the catch answers 500 either way.
DeleteRemove(r) ==
  /\ pc[r] = "d_delete"
  /\ \E ok \in BOOLEAN :
       IF ok /\ (\E rec \in records : rec.id = rq[r].id)
       THEN /\ records' = {rec \in records : rec.id # rq[r].id}
            /\ Respond(r, rq[r], [NoResp EXCEPT !.status = 200, !.success = TRUE,
                                                !.id = rq[r].id])
       ELSE /\ UNCHANGED records
            /\ Respond(r, Failed(rq[r], IF ok THEN "gone" ELSE "delete"),
                       [NoResp EXCEPT !.status = 500])
  /\ UNCHANGED <<users, issued, variant, credits, nextId, hist>>

\* ---------------------------------------------- GET /summary/:id/transcript
TranscriptStart(r, u, id) ==
  /\ variant = 2
  /\ Begin(r, u)
  /\ Goto(r, [NoReq EXCEPT !.op = "transcript", !.user = u, !.id = id],
          "t_find")
  /\ UNCHANGED <<users, issued, variant, credits, records, nextId>>

\* prisma.summary.findUnique({ where: { id, userId } })
TranscriptFind(r) ==
  /\ variant = 2
  /\ pc[r] = "t_find"
  /\ \E ok \in BOOLEAN :
       IF ~ok
       THEN Respond(r, Failed(rq[r], "find"), ErrorOnly(500))
       ELSE IF FindByIdAndUser(rq[r].id, rq[r].user) = {}
       THEN Respond(r, rq[r], ErrorOnly(404))
       ELSE \E rec \in FindByIdAndUser(rq[r].id, rq[r].user) :
              Respond(r, rq[r],
                      [NoResp EXCEPT !.status = 200, !.success = TRUE,
                                     !.summary.title =
                                       DecodeStored(rec.summary).title,
                                     !.transcript = TranscriptText(rec)])
  /\ UNCHANGED <<users, issued, variant, credits, records, nextId, hist>>

\* ------------------------------------------------------------ auth routes
\* prisma.user.findUnique({ where: { email } })
FindUniqueByEmail(email) == {a \in DOMAIN users : users[a].email = email}

\* prisma.user.findFirst({ where: { refreshToken } })
FindFirstByRefreshToken(refreshToken) ==
  {a \in DOMAIN users : users[a].refreshToken = refreshToken}

\* generateTokens(userId, email): a signed access token and a random refresh
\* token.
generateTokens(userId, email) ==
  [accessToken |-> AccessToken(userId, email),
   refreshToken |-> Len(issued) + 1]

\* The requests being handled.
InFlight == {q \in Requests : pc[q] \notin {"idle", "done"}}

\* A request enters a handler of the auth router, which runs no middleware.
AuthBegin(r) ==
  /\ pc[r] = "idle"
  /\ Len(issued) + Cardinality(InFlight) < MaxTokens
  /\ hist' = [hist EXCEPT ![r] =
       [NoHist EXCEPT
          !.prev = IF lastDone # "none" /\ lastDone # r /\ pc[lastDone] = "done"
                   THEN lastDone ELSE "none",
          !.users0 = users, !.credits0 = credits, !.issued0 = Len(issued)]]

\* What the auth routes answer with on success.
AuthResponse(request) ==
  [NoResp EXCEPT !.status = 200, !.token = request.tokens.accessToken,
                 !.user = request.user]

\* ---------------------------------------------------------- POST /auth/signin
SigninStart(r, email, password) ==
  /\ AuthBegin(r)
  /\ LET request == [NoReq EXCEPT !.op = "signin", !.email = email,
                                  !.password = password]
     IN IF email = "" \/ password = ""
        THEN Respond(r, request, ErrorOnly(400))
        ELSE Goto(r, request, "si_find")
  /\ UNCHANGED <<users, issued, variant, credits, records, nextId>>

\* findUnique by email, comparePasswords, generateTokens.
SigninFind(r) ==
  /\ pc[r] = "si_find"
  /\ \E ok \in BOOLEAN :
       IF ~ok
       THEN /\ Respond(r, Failed(rq[r], "find"), ErrorOnly(500))
            /\ UNCHANGED issued
       ELSE IF \A a \in FindUniqueByEmail(rq[r].email) :
                 users[a].passwordHash = <<>>
       THEN /\ Respond(r, rq[r], ErrorOnly(400))
            /\ UNCHANGED issued
       ELSE \E a \in FindUniqueByEmail(rq[r].email) :
              IF ~comparePasswords(rq[r].password, users[a].passwordHash)
              THEN /\ Respond(r, rq[r], ErrorOnly(401))
                   /\ UNCHANGED issued
              ELSE /\ Goto(r, [rq[r] EXCEPT
                                 !.user = a,
                                 !.tokens = generateTokens(a, users[a].email)],
                           "si_update")
                   /\ issued' = Append(issued, a)
  /\ UNCHANGED <<users, variant, credits, records, nextId, hist>>

\* prisma.user.update({ where: { id }, data: { refreshToken, lastLogin } })
SigninUpdate(r) ==
  /\ pc[r] = "si_update"
  /\ \E ok \in BOOLEAN :
       IF ok /\ rq[r].user \in DOMAIN users
       THEN /\ users' = [users EXCEPT
                           ![rq[r].user].refreshToken =
                             rq[r].tokens.refreshToken,
                           ![rq[r].user].lastLogin = Len(issued)]
            /\ Respond(r, rq[r], AuthResponse(rq[r]))
       ELSE /\ UNCHANGED users
            /\ Respond(r, Failed(rq[r], "update"),
                       ErrorOnly(500))
  /\ UNCHANGED <<issued, variant, credits, records, nextId, hist>>

\* ---------------------------------------------------------- POST /auth/signup
SignupStart(r, email, password, name) ==
  /\ AuthBegin(r)
  /\ LET request == [NoReq EXCEPT !.op = "signup", !.email = email,
                                  !.password = password, !.name = name]
     IN IF email = "" \/ password = "" \/ name = ""
        THEN Respond(r, request, ErrorOnly(400))
        ELSE Goto(r, request, "su_find")
  /\ UNCHANGED <<users, issued, variant, credits, records, nextId>>

\* findUnique by email; hashPassword and generateVerificationToken follow.
SignupFind(r) ==
  /\ pc[r] = "su_find"
  /\ \E ok \in BOOLEAN :
       IF ~ok
       THEN Respond(r, Failed(rq[r], "find"), ErrorOnly(500))
       ELSE IF FindUniqueByEmail(rq[r].email) # {}
       THEN Respond(r, rq[r], ErrorOnly(400))
       ELSE Goto(r, rq[r], "su_create")
  /\ UNCHANGED <<users, issued, variant, credits, records, nextId, hist>>

\* prisma.user.create({ data: { email, name, passwordHash, verificationToken,
\* credits: 10 } }), which throws on an email already there (email is @unique);
\* then generateTokens for the new row.
SignupCreate(r) ==
  /\ pc[r] = "su_create"
  /\ \E ok \in BOOLEAN :
       IF ok /\ FindUniqueByEmail(rq[r].email) = {}
             /\ Accounts \ DOMAIN users # {}
       THEN LET a == CHOOSE id \in Accounts : id \notin DOMAIN users
            IN /\ users' = users @@
                    (a :> UserRow(rq[r].email, rq[r].name,
                                  hashPassword(rq[r].password)))
               /\ credits' = credits @@ (a :> SignupCredits)
               /\ Goto(r, [rq[r] EXCEPT
                             !.user = a,
                             !.tokens = generateTokens(a, rq[r].email)],
                       "su_update")
               /\ issued' = Append(issued, a)
       ELSE /\ UNCHANGED <<users, credits, issued>>
            /\ Respond(r, Failed(rq[r], "create"),
                       ErrorOnly(500))
  /\ UNCHANGED <<variant, records, nextId, hist>>

\* prisma.user.update({ where: { id }, data: { refreshToken, lastLogin } })
SignupUpdate(r) ==
  /\ pc[r] = "su_update"
  /\ \E ok \in BOOLEAN :
       IF ok /\ rq[r].user \in DOMAIN users
       THEN /\ users' = [users EXCEPT
                           ![rq[r].user].refreshToken =
                             rq[r].tokens.refreshToken,
                           ![rq[r].user].lastLogin = Len(issued)]
            /\ Respond(r, rq[r], AuthResponse(rq[r]))
       ELSE /\ UNCHANGED users
            /\ Respond(r, Failed(rq[r], "update"),
                       ErrorOnly(500))
  /\ UNCHANGED <<issued, variant, credits, records, nextId, hist>>

\* --------------------------------------------------------- POST /auth/refresh
RefreshStart(r, refreshToken) ==
  /\ AuthBegin(r)
  /\ LET request == [NoReq EXCEPT !.op = "refresh",
                                  !.refreshToken = refreshToken]
     IN IF refreshToken = 0
        THEN Respond(r, request, ErrorOnly(400))
        ELSE Goto(r, request, "rf_find")
  /\ UNCHANGED <<users, issued, variant, credits, records, nextId>>

\* findFirst by refreshToken, generateTokens.
RefreshFind(r) ==
  /\ pc[r] = "rf_find"
  /\ \E ok \in BOOLEAN :
       IF ~ok
       THEN /\ Respond(r, Failed(rq[r], "find"), ErrorOnly(500))
            /\ UNCHANGED issued
       ELSE IF FindFirstByRefreshToken(rq[r].refreshToken) = {}
       THEN /\ Respond(r, rq[r], ErrorOnly(401))
            /\ UNCHANGED issued
       ELSE \E a \in FindFirstByRefreshToken(rq[r].refreshToken) :
              /\ Goto(r, [rq[r] EXCEPT
                            !.user = a,
                            !.tokens = generateTokens(a, users[a].email)],
                      "rf_update")
              /\ issued' = Append(issued, a)
  /\ UNCHANGED <<users, variant, credits, records, nextId, hist>>

\* What the rotation must not be: a refresh that answers with a new token and
\* leaves the presented one stored.
RefreshKeepsToken(r) ==
  /\ pc[r] = "rf_update"
  /\ \E ok \in BOOLEAN :
       IF ok /\ rq[r].user \in DOMAIN users
       THEN /\ UNCHANGED users
            /\ Respond(r, rq[r],
                       [AuthResponse(rq[r]) EXCEPT
                          !.refreshToken = rq[r].tokens.refreshToken,
                          !.success = TRUE])
       ELSE /\ UNCHANGED users
            /\ Respond(r, Failed(rq[r], "update"),
                       ErrorOnly(500))
  /\ UNCHANGED <<issued, variant, credits, records, nextId, hist>>

\* prisma.user.update({ where: { id }, data: { refreshToken: newRefreshToken } })
RefreshUpdate(r) ==
  /\ pc[r] = "rf_update"
  /\ \E ok \in BOOLEAN :
       IF ok /\ rq[r].user \in DOMAIN users
       THEN /\ users' = [users EXCEPT
                           ![rq[r].user].refreshToken =
                             rq[r].tokens.refreshToken]
            /\ Respond(r, rq[r],
                       [AuthResponse(rq[r]) EXCEPT
                          !.refreshToken = rq[r].tokens.refreshToken,
                          !.success = TRUE])
       ELSE /\ UNCHANGED users
            /\ Respond(r, Failed(rq[r], "update"),
                       ErrorOnly(500))
  /\ UNCHANGED <<issued, variant, credits, records, nextId, hist>>

\* ------------------------------------------------------------ authMiddleware
\* jwt.decode in its place: the claims, whoever signed them and whenever.
decodeToken(header) == header.token

\* A verification that asks the User table whether the token's refresh token
\* is still the stored one.
verifyTokenStored(header) ==
  IF /\ header.issuer = "server" /\ ~header.expired
     /\ header.token.userId \in DOMAIN users
     /\ users[header.token.userId].refreshToken = header.issue
  THEN header.token ELSE NoToken

\* jwt.verify(token, JWT_SECRET): the claims of a token the server signed
\* that has not expired; null otherwise.
verifyToken(header) ==
  IF header.issuer = "server" /\ ~header.expired THEN header.token ELSE NoToken

\* authHeader && authHeader.startsWith("Bearer ")
IsBearer(header) == header.scheme = "Bearer"

\* A request comes to the middleware or to GET /auth/me.
GateBegin(r) ==
  /\ pc[r] = "idle"
  /\ hist' = [hist EXCEPT ![r] =
       [NoHist EXCEPT
          !.recs0 = records,
          !.prev = IF lastDone # "none" /\ lastDone # r /\ pc[lastDone] = "done"
                   THEN lastDone ELSE "none",
          !.users0 = users, !.credits0 = credits, !.issued0 = Len(issued)]]

ProtectedRequest(header) == [NoReq EXCEPT !.op = "protected", !.header = header]

\* First version: the header is checked, then the token goes to the identity
\* service.
MiddlewareStart1(r, header) ==
  /\ variant = 1
  /\ GateBegin(r)
  /\ IF ~IsBearer(header)
     THEN Respond(r, ProtectedRequest(header), ErrorOnly(401))
     ELSE Goto(r, ProtectedRequest(header), "mw_getuser")
  /\ UNCHANGED <<users, issued, variant, credits, records, nextId>>

\* supabase.auth.getUser(token) resolves to a user or to an error: an error
\* for a token the service did not issue or that has expired, and whenever
\* the service cannot tell.
MiddlewareGetUser1(r) ==
  /\ pc[r] = "mw_getuser"
  /\ \E told \in BOOLEAN :
       IF told /\ rq[r].header.issuer = "provider" /\ ~rq[r].header.expired
       THEN Goto(r, [rq[r] EXCEPT !.user = rq[r].header.token.userId],
                 "mw_find")
       ELSE Respond(r, rq[r], ErrorOnly(401))
  /\ UNCHANGED <<users, issued, variant, credits, records, nextId, hist>>

\* findUnique by id: 500 when it throws; the row is created when there is
\* none, else updated.
MiddlewareFind1(r) ==
  /\ variant = 1
  /\ pc[r] = "mw_find"
  /\ \E ok \in BOOLEAN :
       IF ~ok
       THEN Respond(r, Failed(rq[r], "find"), ErrorOnly(500))
       ELSE IF rq[r].user \in DOMAIN users
       THEN Goto(r, rq[r], "mw_update")
       ELSE Goto(r, rq[r], "mw_create")
  /\ UNCHANGED <<users, issued, variant, credits, records, nextId, hist>>

\* No other row has the email (email is @unique).
EmailFree(email, id) == FindUniqueByEmail(email) \subseteq {id}

\* prisma.user.create with credits: 10; a failure is logged and next() is
\* called in any case.
MiddlewareCreate1(r) ==
  /\ pc[r] = "mw_create"
  /\ \E ok \in BOOLEAN :
       LET id == rq[r].user
           email == rq[r].header.token.email
       IN  IF ok /\ id \notin DOMAIN users /\ EmailFree(email, id)
           THEN /\ users' = users @@ (id :> UserRow(email, "New User", <<>>))
                /\ credits' = credits @@ (id :> SignupCredits)
                /\ Goto(r, rq[r], "mw_next")
           ELSE /\ UNCHANGED <<users, credits>>
                /\ Goto(r, Failed(rq[r], "create"), "mw_next")
  /\ UNCHANGED <<issued, variant, records, nextId, hist>>

\* prisma.user.update of email, name, imageUrl and provider; a failure is
\* logged and next() is called in any case.
MiddlewareUpdate1(r) ==
  /\ pc[r] = "mw_update"
  /\ \E ok \in BOOLEAN :
       LET id == rq[r].user
           email == rq[r].header.token.email
       IN  IF ok /\ id \in DOMAIN users /\ EmailFree(email, id)
           THEN /\ users' = [users EXCEPT ![id].email = email]
                /\ Goto(r, rq[r], "mw_next")
           ELSE /\ UNCHANGED users
                /\ Goto(r, Failed(rq[r], "update"), "mw_next")
  /\ UNCHANGED <<issued, variant, credits, records, nextId, hist>>

\* Second version: the header is checked and the token verified; 401 for
\* either.
MiddlewareStart2(r, header) ==
  /\ variant = 2
  /\ GateBegin(r)
  /\ IF ~IsBearer(header) \/ verifyToken(header) = NoToken
     THEN Respond(r, ProtectedRequest(header), ErrorOnly(401))
     ELSE Goto(r, [ProtectedRequest(header) EXCEPT
                     !.user = verifyToken(header).userId],
               "mw_find")
  /\ UNCHANGED <<users, issued, variant, credits, records, nextId>>

\* findUnique by the token's userId: 401 without a row, 500 when it throws.
MiddlewareFind2(r) ==
  /\ variant = 2
  /\ pc[r] = "mw_find"
  /\ \E ok \in BOOLEAN :
       IF ~ok
       THEN Respond(r, Failed(rq[r], "find"), ErrorOnly(500))
       ELSE IF rq[r].user \notin DOMAIN users
       THEN Respond(r, rq[r], ErrorOnly(401))
       ELSE Goto(r, rq[r], "mw_next")
  /\ UNCHANGED <<users, issued, variant, credits, records, nextId, hist>>

\* --------------------------------------------------------------- GET /auth/me
MeStart(r, header) ==
  /\ GateBegin(r)
  /\ LET request == [NoReq EXCEPT !.op = "me", !.header = header]
     IN  IF ~IsBearer(header) \/ verifyToken(header) = NoToken
         THEN Respond(r, request, ErrorOnly(401))
         ELSE Goto(r, [request EXCEPT !.user = verifyToken(header).userId],
                   "me_find")
  /\ UNCHANGED <<users, issued, variant, credits, records, nextId>>

\* findUnique by the token's userId: 404 without a row, 500 when it throws.
MeFind(r) ==
  /\ pc[r] = "me_find"
  /\ \E ok \in BOOLEAN :
       IF ~ok
       THEN Respond(r, Failed(rq[r], "find"), ErrorOnly(500))
       ELSE IF rq[r].user \notin DOMAIN users
       THEN Respond(r, rq[r], ErrorOnly(404))
       ELSE Respond(r, rq[r], [NoResp EXCEPT !.status = 200,
                                             !.user = rq[r].user])
  /\ UNCHANGED <<users, issued, variant, credits, records, nextId, hist>>

\* ------------------------------------------------------------------- steps
RecordIds == 1..MaxRecords

\* A request of `callers` arrives at a route.
GenerateBegin(r, callers) ==
  \E u \in callers, content \in Contents, metadata \in Metadatas :
    GenerateStart(r, u, content, metadata)

SaveBegin(r, callers) ==
  \/ \E u \in callers, body \in SaveBodies : SaveStart1(r, u, body)
  \/ \E u \in callers, body \in SaveBodies : SaveStart2(r, u, body)

ReadBegin(r, callers) ==
  \/ \E u \in callers, page \in Pages, limit \in Limits :
       ListStart(r, u, page, limit)
  \/ \E u \in callers, id \in RecordIds : GetStart(r, u, id)
  \/ \E u \in callers, id \in RecordIds : TranscriptStart(r, u, id)

DeleteBegin(r, callers) ==
  \E u \in callers, id \in RecordIds : DeleteStart(r, u, id)

\* A request in its handler takes its next step.
GenerateRun(r) ==
  \/ GenerateFindExisting1(r)
  \/ GenerateFindExisting2(r)
  \/ GenerateGetCredits1(r)
  \/ GenerateGetCredits2(r)
  \/ GenerateCallAdapter(r)
  \/ GeneratePersist1(r)
  \/ GeneratePersist2(r)

SaveRun(r) ==
  \/ SaveCreate1(r)
  \/ SaveFindExisting2(r)
  \/ SaveCreate2(r)

ReadRun(r) ==
  \/ ListFindMany(r)
  \/ ListCount(r)
  \/ GetFind(r)
  \/ TranscriptFind(r)

DeleteRun(r) ==
  \/ DeleteFind(r)
  \/ DeleteRemove(r)

Step(r) ==
  \/ GenerateBegin(r, Accounts)
  \/ SaveBegin(r, Accounts)
  \/ ReadBegin(r, Accounts)
  \/ DeleteBegin(r, Accounts)
  \/ GenerateRun(r)
  \/ SaveRun(r)
  \/ ReadRun(r)
  \/ DeleteRun(r)
  \/ Retire(r)

\* A request arrives at a route of the auth router, or goes on in it.
Tokens == 0..MaxTokens

SigninBegin(r) ==
  \E email \in Emails \cup {""}, password \in Passwords \cup {""} :
    SigninStart(r, email, password)

SignupBegin(r) ==
  \E email \in Emails \cup {""}, password \in Passwords \cup {""},
     name \in Names \cup {""} :
    SignupStart(r, email, password, name)

RefreshBegin(r) == \E refreshToken \in Tokens : RefreshStart(r, refreshToken)

SigninRun(r) ==
  \/ SigninFind(r)
  \/ SigninUpdate(r)

SignupRun(r) ==
  \/ SignupFind(r)
  \/ SignupCreate(r)
  \/ SignupUpdate(r)

RefreshRun(r) ==
  \/ RefreshFind(r)
  \/ RefreshUpdate(r)

AuthStep(r) ==
  \/ SignupBegin(r)
  \/ SigninBegin(r)
  \/ RefreshBegin(r)
  \/ SignupRun(r)
  \/ SigninRun(r)
  \/ RefreshRun(r)
  \/ Retire(r)

\* Requests are handled concurrently: any request may take its next step.
Next == \E r \in Requests : Step(r) \/ AuthStep(r)

Spec == Init /\ [][Next]_vars

\* One client that sends its next request after reading the answer: every
\* route, one request at a time.
Solo == "r1"

NextSolo == Step(Solo)

SpecSolo == Init /\ [][NextSolo]_vars

\* No other request is being handled.
Quiet(r) == \A q \in Requests \ {r} : pc[q] \in {"idle", "done"}

\* Two clients whose generate requests are served one after the other: a
\* request begins only when no other request is being handled.
NextGenerateSeq ==
  \E r \in Requests :
    \/ Quiet(r) /\ GenerateBegin(r, Accounts)
    \/ GenerateRun(r)
    \/ Retire(r)

SpecGenerateSeq == Init /\ [][NextGenerateSeq]_vars

\* Two generate requests of one account served concurrently.
NextGenerateRace ==
  \E r \in Requests :
    \/ GenerateBegin(r, {"A"})
    \/ GenerateRun(r)
    \/ Retire(r)

SpecGenerateRace == Init /\ [][NextGenerateRace]_vars

\* One client that generates and saves.
NextGenerateSave ==
  \/ GenerateBegin(Solo, Accounts)
  \/ SaveBegin(Solo, Accounts)
  \/ GenerateRun(Solo)
  \/ SaveRun(Solo)
  \/ Retire(Solo)

SpecGenerateSave == Init /\ [][NextGenerateSave]_vars

\* One client that saves, reads and deletes.
NextStore ==
  \/ SaveBegin(Solo, Accounts)
  \/ ReadBegin(Solo, Accounts)
  \/ DeleteBegin(Solo, Accounts)
  \/ SaveRun(Solo)
  \/ ReadRun(Solo)
  \/ DeleteRun(Solo)
  \/ Retire(Solo)

SpecStore == Init /\ [][NextStore]_vars

\* One client that only saves.
NextSave ==
  \/ SaveBegin(Solo, Accounts)
  \/ SaveRun(Solo)
  \/ Retire(Solo)

SpecSave == Init /\ [][NextSave]_vars

\* Two save requests of one account served concurrently.
NextSaveRace ==
  \E r \in Requests :
    \/ SaveBegin(r, {"A"})
    \/ SaveRun(r)
    \/ Retire(r)

SpecSaveRace == Init /\ [][NextSaveRace]_vars

\* One client, of either account, that sends its requests to every route that
\* reads or writes the summary table one after the other, and signs in once.
KeptBodies ==
  {FullBody(<<"1">>, <<>>, <<>>),
   [FullBody(<<"1">>, <<>>, <<>>) EXCEPT !.fullSummary = <<"G">>]}

RecordsBegin(r) ==
  \/ \E u \in Accounts, metadata \in CodecMetadatas :
       GenerateStart(r, u, <<"c">>, metadata)
  \/ \E u \in Accounts, body \in KeptBodies : SaveStart1(r, u, body)
  \/ \E u \in Accounts, body \in KeptBodies : SaveStart2(r, u, body)
  \/ \E u \in Accounts : ListStart(r, u, 1, 10)
  \/ \E u \in Accounts : GetStart(r, u, 1)
  \/ \E u \in Accounts : TranscriptStart(r, u, 1)
  \/ \E u \in Accounts, id \in RecordIds : DeleteStart(r, u, id)
  \/ Len(issued) = 0 /\ SigninStart(r, EmailOf("A"), "p")

NextRecords ==
  \/ RecordsBegin(Solo)
  \/ GenerateRun(Solo)
  \/ SaveRun(Solo)
  \/ ReadRun(Solo)
  \/ DeleteRun(Solo)
  \/ SigninRun(Solo)
  \/ Retire(Solo)

SpecRecords == Init /\ [][NextRecords]_vars

\* The same client when it also signs in as often as tokens are left and
\* refreshes, and the table is left as it is found.
CreditsBegin(r) ==
  \/ \E u \in Accounts, metadata \in CodecMetadatas :
       GenerateStart(r, u, <<"c">>, metadata)
  \/ \E u \in Accounts : SaveStart1(r, u, FullBody(<<"1">>, <<>>, <<>>))
  \/ \E u \in Accounts : SaveStart2(r, u, FullBody(<<"1">>, <<>>, <<>>))
  \/ ListStart(r, "A", 1, 10)
  \/ GetStart(r, "A", 1)
  \/ TranscriptStart(r, "A", 1)
  \/ DeleteStart(r, "A", 1)
  \/ SigninStart(r, EmailOf("A"), "p")
  \/ RefreshBegin(r)

NextCredits ==
  \/ CreditsBegin(Solo)
  \/ GenerateRun(Solo)
  \/ SaveRun(Solo)
  \/ ReadRun(Solo)
  \/ DeleteRun(Solo)
  \/ SigninRun(Solo)
  \/ RefreshRun(Solo)
  \/ Retire(Solo)

SpecCredits == Init /\ [][NextCredits]_vars

\* One client of the second version that asks for a summary of the video "1",
\* saves what it was given and asks again, each request after the answer to
\* the one before. The transcript has no sentence of its own, or one, with or
\* without a hyphen in it.
SequenceContents ==
  {<<"c">>,
   Repeat("s", MinSentenceLength + 1),
   Repeat("s", MinSentenceLength) \o <<"-", "s">>}

\* The body the client sends to save the summary it was given for videoUrl.
ReturnedBody(summary, videoUrl) ==
  [videoId |-> <<"1">>, title |-> summary.title, hasKeyPoints |-> TRUE,
   keyPoints |-> summary.keyPoints, fullSummary |-> summary.fullSummary,
   sourceUrl |-> videoUrl, transcript |-> <<>>]

\* The other slot.
Peer(r) == CHOOSE q \in Requests : q # r

SequenceFirst(r) ==
  /\ pc[Peer(r)] = "idle"
  /\ records = {}
  /\ \E content \in SequenceContents, metadata \in CodecMetadatas :
       GenerateStart(r, "A", content, metadata)

SequenceSave(r) ==
  /\ pc[Peer(r)] = "done"
  /\ rq[Peer(r)].op = "generate"
  /\ resp[Peer(r)].status = 200
  /\ records = {}
  /\ SaveStart2(r, "A", ReturnedBody(resp[Peer(r)].summary,
                                     rq[Peer(r)].videoUrl))

SequenceThird(r) ==
  /\ pc[Peer(r)] = "done"
  /\ rq[Peer(r)].op = "generate"
  /\ hist[Peer(r)].recs0 = {}
  /\ records # {}
  /\ \E content \in SequenceContents, metadata \in CodecMetadatas :
       GenerateStart(r, "A", content, metadata)

\* The answer to the save is read before the third call; that to a generate
\* is kept till the sequence ends, or dropped when nothing else was sent.
SequenceRetire(r) ==
  /\ rq[r].op = "save" \/ pc[Peer(r)] = "idle"
  /\ Retire(r)

NextSequence ==
  \E r \in Requests :
    \/ SequenceFirst(r)
    \/ SequenceSave(r)
    \/ SequenceThird(r)
    \/ GenerateFindExisting2(r)
    \/ GenerateGetCredits2(r)
    \/ GenerateCallService(r)
    \/ GeneratePersist2(r)
    \/ SaveFindExisting2(r)
    \/ SaveCreate2(r)
    \/ SequenceRetire(r)

InitSequence == Init /\ variant = 2

SpecSequence == InitSequence /\ [][NextSequence]_vars

\* One client that saves a summary of the video "1", with key points of
\* every kind, to an empty table, asks to generate one for it and reads what
\* is stored.
CodecBegin(r) ==
  \/ \E metadata \in CodecMetadatas : GenerateStart(r, "A", <<"c">>, metadata)
  \/ ListStart(r, "A", 1, 10)
  \/ GetStart(r, "A", 1)
  \/ TranscriptStart(r, "A", 1)

InitEncode == Init /\ credits = [a \in Accounts |-> MaxCredits]

NextEncode ==
  \/ records = {} /\ \E body \in CodecBodies : SaveStart1(Solo, "A", body)
  \/ records = {} /\ \E body \in CodecBodies : SaveStart2(Solo, "A", body)
  \/ CodecBegin(Solo)
  \/ SaveRun(Solo)
  \/ GenerateRun(Solo)
  \/ ReadRun(Solo)
  \/ Retire(Solo)

SpecEncode == InitEncode /\ [][NextEncode]_vars

\* One account generates summaries of transcripts with either file behind
\* generateSummary, as long as nothing has been stored or charged.
ServiceBegin(r) ==
  /\ records = {}
  /\ credits["A"] = MaxCredits
  /\ \E content \in ServiceContents, metadata \in CodecMetadatas :
       GenerateStart(r, "A", content, metadata)

NextService ==
  \/ ServiceBegin(Solo)
  \/ GenerateFindExisting1(Solo)
  \/ GenerateFindExisting2(Solo)
  \/ GenerateGetCredits1(Solo)
  \/ GenerateGetCredits2(Solo)
  \/ GenerateCallService(Solo)
  \/ GeneratePersist1(Solo)
  \/ GeneratePersist2(Solo)
  \/ Retire(Solo)

SpecService == InitEncode /\ [][NextService]_vars

\* The same client with the provider's answer awaited: every step of the
\* handler that is the server's own, or the continuation of a persistence
\* call, is taken in the end; the provider's answer is not the server's to
\* give.
AwaitBegin(r) ==
  /\ records = {}
  /\ credits["A"] = MaxCredits
  /\ \E content \in LongTranscripts \cup {<<"b">>},
        metadata \in CodecMetadatas :
       GenerateStart(r, "A", content, metadata)

ServerStep(r) ==
  \/ GenerateFindExisting1(r)
  \/ GenerateFindExisting2(r)
  \/ GenerateGetCredits1(r)
  \/ GenerateGetCredits2(r)
  \/ GenerateCallUnasked(r)
  \/ GenerateAskProvider(r)
  \/ GeneratePersist1(r)
  \/ GeneratePersist2(r)

NextAwait ==
  \/ AwaitBegin(Solo)
  \/ ServerStep(Solo)
  \/ GenerateProviderSettles(Solo)
  \/ Retire(Solo)

FairAwait == WF_vars(ServerStep(Solo))

SpecAwait == InitEncode /\ [][NextAwait]_vars /\ FairAwait

\* The same client's generate and read requests when the table holds a row
\* of the account for the video "1", with any text as its summary.
StoredRecord(text) ==
  [id |-> 1, userId |-> "A", videoUrl |-> VideoUrl(<<>>, <<"1">>),
   summary |-> text, transcript |-> <<>>]

InitHolding(texts) ==
  /\ variant \in Variants
  /\ credits = [a \in Accounts |-> MaxCredits]
  /\ \E text \in texts : records = {StoredRecord(text)}
  /\ nextId = 1
  /\ pc = [r \in Requests |-> "idle"]
  /\ rq = [r \in Requests |-> NoReq]
  /\ resp = [r \in Requests |-> NoResp]
  /\ hist = [r \in Requests |-> NoHist]
  /\ lastDone = "none"
  /\ users = [a \in Accounts |-> UserRow(EmailOf(a), "n", hashPassword("p"))]
  /\ issued = <<>>

InitStored == InitHolding(StoredTexts)

\* Two clients, each of either account, whose deletes of the stored row and of
\* a row that is not there are served concurrently.
InitOneRow == InitHolding({SummaryText(<<"T">>, << <<"p">> >>, <<"F">>)})

NextDeleteRace ==
  \E r \in Requests :
    \/ DeleteBegin(r, Accounts)
    \/ DeleteRun(r)
    \/ Retire(r)

SpecDeleteRace == InitOneRow /\ [][NextDeleteRace]_vars

NextDecode ==
  \/ CodecBegin(Solo)
  \/ GenerateRun(Solo)
  \/ ReadRun(Solo)
  \/ Retire(Solo)

SpecDecode == InitStored /\ [][NextDecode]_vars

\* Two clients of the account, served one after the other, so that the answer
\* of one request is still held when the next one is answered; the row holds
\* what the encoder writes for a request body, or a text of at most one piece.
EquivTexts == TextsOf(1) \cup EncodedTexts

InitEquiv == InitHolding(EquivTexts)

NextEquiv ==
  \E r \in Requests :
    \/ Quiet(r) /\ CodecBegin(r)
    \/ GenerateRun(r)
    \/ ReadRun(r)
    \/ Retire(r)

SpecEquiv == InitEquiv /\ [][NextEquiv]_vars

\* The auth router from an empty User table: one client that sends its next
\* request after reading the answer.
InitAuth ==
  /\ variant \in Variants
  /\ credits = <<>>
  /\ records = {}
  /\ nextId = 0
  /\ pc = [r \in Requests |-> "idle"]
  /\ rq = [r \in Requests |-> NoReq]
  /\ resp = [r \in Requests |-> NoResp]
  /\ hist = [r \in Requests |-> NoHist]
  /\ lastDone = "none"
  /\ users = <<>>
  /\ issued = <<>>

NextAuth == AuthStep(Solo)

SpecAuth == InitAuth /\ [][NextAuth]_vars

\* Signin and refresh requests of one signed-up account, served concurrently.
InitSignedUp ==
  /\ variant \in Variants
  /\ credits = ("A" :> SignupCredits)
  /\ records = {}
  /\ nextId = 0
  /\ pc = [r \in Requests |-> "idle"]
  /\ rq = [r \in Requests |-> NoReq]
  /\ resp = [r \in Requests |-> NoResp]
  /\ hist = [r \in Requests |-> NoHist]
  /\ lastDone = "none"
  /\ users = ("A" :> [UserRow("a@x", "n", hashPassword("p"))
                        EXCEPT !.refreshToken = 1, !.lastLogin = 1])
  /\ issued = <<"A">>

NextAuthRace ==
  \E r \in Requests :
    \/ \E password \in Passwords : SigninStart(r, "a@x", password)
    \/ RefreshBegin(r)
    \/ SigninRun(r)
    \/ RefreshRun(r)
    \/ Retire(r)

SpecAuthRace == InitSignedUp /\ [][NextAuthRace]_vars

\* One client of a signed-up account: it signs in, refreshes, and presents
\* headers to the middleware and to GET /auth/me; what the middleware lets
\* through reads the account's summaries. A header carries no token, or the
\* claims of an account under either scheme, signed by nobody, by the
\* identity service, or by one of the generateTokens calls made for it.
ClaimsOf(a) == AccessToken(a, EmailOf(a))
Headers ==
  {NoHeader}
    \cup {Header(scheme, ClaimsOf(a), issuer, 0, expired) :
            scheme \in {"Basic", "Bearer"}, a \in Accounts,
            issuer \in {"none", "provider"}, expired \in BOOLEAN}
    \cup {Header(scheme, ClaimsOf(issued[n]), "server", n, expired) :
            scheme \in {"Basic", "Bearer"}, n \in 1..Len(issued),
            expired \in BOOLEAN}

GateRun(r) ==
  \/ MiddlewareGetUser1(r)
  \/ MiddlewareFind1(r)
  \/ MiddlewareCreate1(r)
  \/ MiddlewareUpdate1(r)
  \/ MiddlewareFind2(r)
  \/ MeFind(r)

\* next(): the handler of the route runs for req.user.
HandlerBegin(r) ==
  /\ pc[r] = "mw_next"
  /\ \/ ListStart(r, rq[r].user, 1, 10)
     \/ GetStart(r, rq[r].user, 1)

NextGate ==
  \/ SigninStart(Solo, "a@x", "p")
  \/ RefreshBegin(Solo)
  \/ \E header \in Headers : MiddlewareStart1(Solo, header)
  \/ \E header \in Headers : MiddlewareStart2(Solo, header)
  \/ \E header \in Headers : MeStart(Solo, header)
  \/ HandlerBegin(Solo)
  \/ SigninRun(Solo)
  \/ RefreshRun(Solo)
  \/ GateRun(Solo)
  \/ ListFindMany(Solo)
  \/ ListCount(Solo)
  \/ GetFind(Solo)
  \/ Retire(Solo)

SpecGate == InitSignedUp /\ [][NextGate]_vars

\* ---------------------------------------------------------------- properties
\* Request r has been answered and was a call of route `op`.
Done(r, op) == pc[r] = "done" /\ rq[r].op = op

\* The records of `recs` that account u holds for videoUrl.
Held(recs, u, videoUrl) ==
  {rec \in recs : rec.userId = u /\ rec.videoUrl = videoUrl}

\* Request r passed the checks of its body and none of its calls threw.
Clean(r) == Truthy(rq[r].videoUrl) /\ rq[r].failed = {}

\* C1: for an account with balance >= 1 that holds no record of a video, two
\* consecutive generate calls for that (account, video), nothing in between,
\* debit the balance by exactly 1 in total, and the second call short-circuits
\* (no adapter call) and returns the record the first call stored (same id).
C1_TwoGeneratesChargeOnce ==
  \A first, second \in Requests :
    (/\ first # second
     /\ Done(first, "generate") /\ Done(second, "generate")
     /\ hist[second].prev = first
     /\ Clean(first) /\ Clean(second)
     /\ rq[first].user = rq[second].user
     /\ rq[first].videoUrl = rq[second].videoUrl
     /\ hist[first].bal0 >= 1
     /\ Held(hist[first].recs0, rq[first].user, rq[first].videoUrl) = {})
    => /\ credits[rq[first].user] = hist[first].bal0 - 1
       /\ rq[second].adapterCalls = 0
       /\ resp[second].status = 200
       /\ resp[first].id # 0
       /\ resp[second].id = resp[first].id

\* C2: once a generate request is answered it has either debited one credit
\* and stored exactly one new record, or debited nothing and stored nothing.
C2_DebitAndRecordTogether ==
  \A r \in Requests :
    Done(r, "generate") =>
      \/ /\ credits[rq[r].user] = hist[r].bal0 - 1
         /\ hist[r].recs0 \subseteq records
         /\ Cardinality(records \ hist[r].recs0) = 1
      \/ /\ credits[rq[r].user] = hist[r].bal0
         /\ records = hist[r].recs0

\* C3: a generate request of an account with balance <= 0 and no record of the
\* video is answered 403, without an adapter call, and writes nothing.
C3_NoCreditsForbidden ==
  \A r \in Requests :
    (/\ Done(r, "generate")
     /\ Clean(r)
     /\ hist[r].bal0 <= 0
     /\ Held(hist[r].recs0, rq[r].user, rq[r].videoUrl) = {})
    => /\ resp[r].status = 403
       /\ rq[r].adapterCalls = 0
       /\ credits[rq[r].user] = hist[r].bal0
       /\ records = hist[r].recs0

\* The record of `recs` a short-circuit answer of request r returns: the answer
\* is a 200 without an adapter call and carries the record's id.
Returned(r, recs) ==
  {rec \in recs : /\ resp[r].status = 200
                  /\ rq[r].adapterCalls = 0
                  /\ rec.id = resp[r].id}

\* C4: a generate request whose account holds a record of the video, the lookup
\* not failing, is answered from a stored record of that video without an
\* adapter call, whatever the balance; and a request that found its account's
\* record returns that record, decoded.  Either way the caller's balance
\* and the records are what they were.
C4_ShortCircuitChangesNothing ==
  \A r \in Requests :
    Done(r, "generate") =>
      /\ (/\ Held(hist[r].recs0, rq[r].user, rq[r].videoUrl) # {}
          /\ Truthy(rq[r].videoUrl)
          /\ "find" \notin rq[r].failed)
         => /\ Returned(r, hist[r].recs0) # {}
            /\ resp[r].success
            /\ variant = 2 =>
                 Returned(r, hist[r].recs0) \subseteq
                   Held(hist[r].recs0, rq[r].user, rq[r].videoUrl)
      /\ \A rec \in Returned(r, hist[r].recs0) :
           /\ rec.videoUrl = rq[r].videoUrl
           /\ resp[r].summary =
                DecodeExisting(rec.summary, rq[r].metadata.title)
           /\ credits[rq[r].user] = hist[r].bal0
           /\ records = hist[r].recs0

\* C4 happens: an account without credits is answered from the record it holds.
C4_Witness ==
  \E r \in Requests :
    /\ Done(r, "generate")
    /\ hist[r].bal0 = 0
    /\ Returned(r, hist[r].recs0) \cap
         Held(hist[r].recs0, rq[r].user, rq[r].videoUrl) # {}
    /\ credits[rq[r].user] = 0

\* C5: a generate request whose write step failed (and no other call) is
\* answered 500, not success, and leaves neither a debit nor a record behind.
C5_WriteFailureIsInternal ==
  \A r \in Requests :
    (Done(r, "generate") /\ rq[r].failed = {"persist"})
    => /\ resp[r].status = 500
       /\ ~resp[r].success
       /\ credits[rq[r].user] = hist[r].bal0
       /\ records = hist[r].recs0

\* C6: no account's balance is ever below 0, however the generate requests of
\* one account interleave.  Stated of the second version, the one that refuses
\* a caller without credits, so that only an interleaving can break it.
C6_BalanceNeverNegative ==
  variant = 2 => \A u \in Accounts : credits[u] >= 0

\* C7: save is idempotent per (account, videoUrl): no account ever holds two
\* records of one videoUrl, and a save for a videoUrl the account holds a
\* record of stores nothing and answers with that record's id.
C7_SaveIdempotent ==
  /\ \A u \in Accounts, rec \in records :
       Cardinality(Held(records, u, rec.videoUrl)) <= 1
  /\ \A r \in Requests :
       (/\ Done(r, "save")
        /\ Clean(r)
        /\ Held(hist[r].recs0, rq[r].user, rq[r].videoUrl) # {})
       => /\ records = hist[r].recs0
          /\ resp[r].status = 200
          /\ \E rec \in Held(hist[r].recs0, rq[r].user, rq[r].videoUrl) :
               resp[r].id = rec.id

\* The records of `recs` with the id request r names that belong to another
\* account than the caller.
Foreign(r, recs) ==
  {rec \in recs : rec.id = rq[r].id /\ rec.userId # rq[r].user}

\* C8: a delete of another account's record is answered 404 (never 200) and the
\* record stays as it is; a record that is gone since a request began was
\* removed by that request, a delete of the record's owner naming its id.
C8_DeleteOnlyByOwner ==
  \A r \in Requests :
    /\ Done(r, "delete") =>
         \A rec \in Foreign(r, hist[r].recs0) :
           /\ resp[r].status # 200
           /\ rq[r].failed = {} => resp[r].status = 404
           /\ rec \in records
    /\ pc[r] # "idle" =>
         \A rec \in hist[r].recs0 \ records :
           /\ rq[r].op = "delete"
           /\ rq[r].id = rec.id
           /\ rq[r].user = rec.userId

\* C8 happens: a delete names another account's record and is answered 404.
C8_Witness ==
  \E r \in Requests :
    /\ Done(r, "delete")
    /\ resp[r].status = 404
    /\ Foreign(r, hist[r].recs0) # {}
    /\ Foreign(r, hist[r].recs0) \subseteq records

\* The records account u held when request r began.
OwnedAtStart(r) == {rec \in hist[r].recs0 : rec.userId = rq[r].user}

\* C9: the read routes give an account only its own records: a get or a
\* transcript answers 200 only with a record the caller owns and 404 for an id
\* of another account's record; every id of a list belongs to the caller, in
\* the order newest first, and its total counts the caller's records alone.
C9_ReadsOnlyOwnRecords ==
  \A r \in Requests :
    /\ (Done(r, "get") \/ Done(r, "transcript")) =>
         /\ resp[r].status = 200 =>
              \E rec \in OwnedAtStart(r) :
                /\ rec.id = rq[r].id
                /\ resp[r].summary.title = DecodeStored(rec.summary).title
                /\ rq[r].op = "get" =>
                     /\ resp[r].summary = DecodeStored(rec.summary)
                     /\ resp[r].transcript \in {<<>>, rec.transcript}
                /\ rq[r].op = "transcript" =>
                     resp[r].transcript = TranscriptText(rec)
         /\ (Foreign(r, hist[r].recs0) # {} /\ rq[r].failed = {}) =>
              resp[r].status = 404
    /\ Done(r, "list") =>
         IF resp[r].status = 200
         THEN /\ \A i \in 1..Len(resp[r].ids) :
                   \E rec \in OwnedAtStart(r) : rec.id = resp[r].ids[i]
              /\ \A i, j \in 1..Len(resp[r].ids) :
                   i < j => resp[r].ids[i] > resp[r].ids[j]
              /\ resp[r].total = Cardinality(OwnedAtStart(r))
         ELSE resp[r].ids = <<>> /\ resp[r].total = 0

\* C9 happens: an account lists its one record while another account holds a
\* record too.
C9_Witness ==
  \E r \in Requests :
    /\ Done(r, "list")
    /\ resp[r].status = 200
    /\ Len(resp[r].ids) = 1
    /\ resp[r].total = 1
    /\ hist[r].recs0 \ OwnedAtStart(r) # {}

\* C10: a generate request for a video of which only another account holds a
\* record does not short-circuit: it is never answered with that account's
\* record, and it is answered 200 only after an adapter call of its own.
C10_LookupKeyedOnAccount ==
  \A r \in Requests :
    (/\ Done(r, "generate")
     /\ Clean(r)
     /\ Held(hist[r].recs0, rq[r].user, rq[r].videoUrl) = {}
     /\ \E rec \in hist[r].recs0 :
          rec.videoUrl = rq[r].videoUrl /\ rec.userId # rq[r].user)
    => /\ Returned(r, hist[r].recs0) = {}
       /\ resp[r].status = 200 => rq[r].adapterCalls = 1
       /\ resp[r].status \in {200, 403}

\* The refresh tokens POST /auth/refresh accepts for an account.
Accepted(table, a) ==
  {t \in 1..MaxTokens : a \in DOMAIN table /\ table[a].refreshToken = t}

\* No account's stored refresh token.
Rejected(table, t) == \A a \in DOMAIN table : table[a].refreshToken # t

\* The step in which request r is answered, by route op with status.
Answers(r, op, status) ==
  /\ pc[r] # "done"
  /\ pc'[r] = "done"
  /\ rq'[r].op = op
  /\ resp'[r].status = status

\* At every moment each account has at most one refresh token that
\* POST /auth/refresh accepts, a token generated for that account, and no two
\* accounts share one.
C11_OneToken ==
  \A a \in Accounts :
    /\ Cardinality(Accepted(users, a)) <= 1
    /\ \A t \in Accepted(users, a) :
         /\ t <= Len(issued)
         /\ issued[t] = a
         /\ \A b \in Accounts \ {a} : t \notin Accepted(users, b)

\* When a refresh(t) is answered with success, t is accepted for no account,
\* and the token of the answer, another one, generated for the account after
\* the request began, is the account's accepted token. When a signin is
\* answered with success the account's accepted token is one generated after
\* the signin began, so that none generated before it is accepted. A refresh
\* whose lookup finds its token with no account is answered 401 (500 when the
\* lookup throws) and stores nothing. The stored token of an account changes
\* only to the token the storing request generated for that account; and a
\* token that is not accepted, once the request that generated it is
\* answered, is never accepted again: every later refresh with it fails.
C11_RotationStep ==
  /\ \A r \in Requests :
       /\ Answers(r, "refresh", 200) =>
            /\ Rejected(users', rq[r].refreshToken)
            /\ resp'[r].refreshToken # rq[r].refreshToken
            /\ resp'[r].refreshToken > hist[r].issued0
            /\ issued[resp'[r].refreshToken] = resp'[r].user
            /\ Accepted(users', resp'[r].user) = {resp'[r].refreshToken}
       /\ Answers(r, "signin", 200) =>
            /\ Accepted(users', resp'[r].user) # {}
            /\ \A t \in Accepted(users', resp'[r].user) : t > hist[r].issued0
       /\ pc[r] = "rf_find" /\ pc'[r] # "rf_find"
          /\ Rejected(users, rq[r].refreshToken) =>
            /\ Answers(r, "refresh", IF rq'[r].failed = {} THEN 401 ELSE 500)
            /\ users' = users
  /\ \A a \in DOMAIN users' :
       (a \in DOMAIN users
          /\ users'[a].refreshToken # users[a].refreshToken) =>
         \E r \in InFlight :
           /\ rq[r].user = a
           /\ rq[r].tokens.refreshToken = users'[a].refreshToken
           /\ issued[users'[a].refreshToken] = a
  /\ \A t \in 1..Len(issued) :
       Rejected(users, t) /\ (\A q \in InFlight : rq[q].tokens.refreshToken # t)
         => Rejected(users', t)

\* C11: each account has at most one refresh token that POST /auth/refresh
\* accepts, the one stored last for it by signup, signin or refresh; a
\* successful refresh(t) leaves t rejected for good and its new token
\* accepted, and a successful signin leaves every token generated before it
\* rejected for the account; under every interleaving of requests.
C11_RefreshTokenRotation == []C11_OneToken /\ [][C11_RotationStep]_vars

\* A refresh was answered with a new token after the account's token had been
\* replaced once already: the third token generated is the one stored.
C11_Witness ==
  \E r \in Requests :
    /\ Done(r, "refresh")
    /\ resp[r].status = 200
    /\ resp[r].refreshToken >= 3
    /\ Accepted(users, resp[r].user) = {resp[r].refreshToken}

\* The record a get or generate answer carries.
Carried(r) == {rec \in records : rec.id = resp[r].id}

\* What a request body asked to store.
Triple(body) ==
  [title |-> body.title, keyPoints |-> body.keyPoints,
   fullSummary |-> body.fullSummary]

\* C12: whenever GET /summary/:id answers with a record whose stored text is
\* the encoding of a title without line break, a non-empty list of non-empty
\* key points and a prose body, the answer's title, keyPoints and fullSummary
\* are exactly those, the key points in their order.
C12_RoundTrip ==
  \A r \in Requests :
    Done(r, "get") /\ resp[r].status = 200 =>
      \A rec \in Carried(r), body \in CodecBodies :
        rec.summary = SummaryText(body.title, body.keyPoints, body.fullSummary)
          => resp[r].summary = Triple(body)

\* The text does not contain the marker "Key Points:".
LacksMarker(text) == IndexOf(text, KeyPointsMarker, 1) = 0

\* What the text of a record without the marker is to be read as.
Degraded(text) == [title |-> <<>>, keyPoints |-> <<>>, fullSummary |-> text]

\* The answer of r is one of the existing-summary branch of generate.
ShortCircuited(r) ==
  Done(r, "generate") /\ resp[r].status = 200 /\ rq[r].adapterCalls = 0

\* C13: whenever get-by-id, the list or the existing-summary branch of generate
\* answers with a record whose stored text does not contain "Key Points:", the
\* title of the answer is empty, its keyPoints are [] and its fullSummary is
\* the whole stored text.
C13_Degradation ==
  \A r \in Requests :
    /\ (Done(r, "get") /\ resp[r].status = 200) \/ ShortCircuited(r) =>
         \A rec \in Carried(r) :
           LacksMarker(rec.summary) => resp[r].summary = Degraded(rec.summary)
    /\ Done(r, "list") /\ resp[r].status = 200 =>
         \A i \in 1..Len(resp[r].ids), rec \in records :
           rec.id = resp[r].ids[i] /\ LacksMarker(rec.summary) =>
             resp[r].summaries[i] = Degraded(rec.summary)

\* What an answer says of stored records: the id of a record with the title,
\* key points and full summary given for it.
Decoded(r) ==
  IF (Done(r, "get") /\ resp[r].status = 200) \/ ShortCircuited(r)
  THEN {<<resp[r].id, resp[r].summary>>}
  ELSE IF Done(r, "list") /\ resp[r].status = 200
  THEN {<<resp[r].ids[i], resp[r].summaries[i]>> : i \in 1..Len(resp[r].ids)}
  ELSE {}

\* The same of the transcript route: the id asked for and the title given.
Entitled(r) ==
  IF Done(r, "transcript") /\ resp[r].status = 200
  THEN {<<rq[r].id, resp[r].summary.title>>}
  ELSE {}

\* C14: of one stored record, whatever its text, the list, get-by-id and the
\* existing-summary branch of generate give the same title, key points and
\* full summary, and the transcript route the same title, whatever
\* metadata.title the generate request carried.
C14_ReadPathsAgree ==
  \A r \in Requests, q \in Requests :
    \A x \in Decoded(r) :
      /\ \A y \in Decoded(q) : x[1] = y[1] => x[2] = y[2]
      /\ \A y \in Entitled(q) : x[1] = y[1] => x[2].title = y[2]

Summarised(r) == pc[r] = "g_persist" /\ rq[r].service.file # "none"

\* C16: for every transcript of 0 to 99 characters generateSummary returns a
\* result whose keyPoints list is non-empty and whose fullSummary is a
\* non-empty string.
C16_FallbackGuarantee ==
  \A r \in Requests :
    Summarised(r) /\ rq[r].content \in ShortTranscripts
      => /\ rq[r].summary.keyPoints # <<>>
         /\ rq[r].summary.fullSummary # <<>>

\* The provider of request r failed: it threw, or answered with no text.
ProviderFailed(r) ==
  /\ rq[r].service.provider.called
  /\ rq[r].service.provider.threw \/ rq[r].service.provider.text = <<>>

\* C17: for every transcript and every outcome of the provider call,
\* generateSummary returns a result with a title, a list of key points and a
\* summary text, the fallback made of the transcript when the provider
\* failed, and the generate request that called it is answered 200.
C17_UpstreamAbsorbed ==
  \A r \in Requests :
    /\ Summarised(r)
         => /\ Truthy(rq[r].summary.title)
            /\ Truthy(rq[r].summary.fullSummary)
            /\ rq[r].summary.keyPoints \in Seq(Seq(STRING))
            /\ ProviderFailed(r)
                 => rq[r].summary =
                      FallbackSummary(AsTranscript(rq[r].content),
                                      OrElse(rq[r].metadata.title, DefaultTitle))
    /\ Done(r, "generate") /\ rq[r].adapterCalls > 0
         => /\ resp[r].status = 200
            /\ Truthy(resp[r].summary.fullSummary)

\* The provider threw for a transcript of 100 characters and the request was
\* answered with the fallback's key points.
C17_Witness ==
  \E r \in Requests :
    /\ Done(r, "generate")
    /\ rq[r].adapterCalls > 0
    /\ resp[r].status = 200
    /\ resp[r].summary.keyPoints =
         << <<Emojis[1], " ">> \o Repeat("c", MinTranscriptLength) >>

\* The provider of request r answered with a text, which was parsed.
Parsed(r) ==
  /\ Summarised(r)
  /\ rq[r].service.provider.called
  /\ ~rq[r].service.provider.threw
  /\ rq[r].service.provider.text # <<>>

\* The items of a section: its pieces between "\n-", trimmed, the empty ones
\* left out, the dashes before the first one stripped.
ItemsOf(section) ==
  LET pieces == SplitItems(section)
      items == SelectSeq([i \in 1..Len(pieces) |-> Trim(pieces[i])],
                         LAMBDA point : point # <<>>)
  IN  IF items = <<>> THEN <<>>
      ELSE <<StripDashes(items[1])>> \o Tail(items)

\* What the parse is to give for a text with both markers: the text between
\* "SUMMARY:" and the "KEY POINTS:" after it, or all that is after
\* "SUMMARY:" when no "KEY POINTS:" follows; and the items of what is after
\* the first "KEY POINTS:", up to the next marker.
MarkedSummary(text) ==
  LET s == IndexOf(text, SummaryMarker, 1)
      after == SubSeq(text, s + Len(SummaryMarker), Len(text))
      k == IndexOf(after, KeyMarker, 1)
  IN  Trim(IF k = 0 THEN after ELSE SubSeq(after, 1, k - 1))

MarkedKeyPoints(text) ==
  LET k == IndexOf(text, KeyMarker, 1)
      after == SubSeq(text, k + Len(KeyMarker), Len(text))
      section == SplitOn(SplitOn(after, KeyMarker)[1], SummaryMarker)[1]
  IN  ItemsOf(section)

\* ... and for any other text: the first non-blank line, and each other
\* non-blank line without its bullet.
NonBlankLines(text) ==
  SelectSeq(SplitOn(text, NL), LAMBDA line : Trim(line) # <<>>)

Expected(text) ==
  LET lines == NonBlankLines(text)
  IN  IF IndexOf(text, SummaryMarker, 1) # 0 /\ IndexOf(text, KeyMarker, 1) # 0
      THEN [fullSummary |-> MarkedSummary(text),
            keyPoints |-> MarkedKeyPoints(text)]
      ELSE IF lines = <<>> THEN [fullSummary |-> <<>>, keyPoints |-> <<>>]
      ELSE [fullSummary |-> lines[1],
            keyPoints |-> [i \in 1..(Len(lines) - 1) |->
                             StripBullet(lines[i + 1])]]

\* C18: the provider's text is parsed as follows: with both markers, in
\* either order, the summary is the text between or after the "SUMMARY:"
\* marker and the key points are the dash-separated items after the
\* "KEY POINTS:" marker; otherwise the summary is the first non-blank line
\* and the key points are the other non-blank lines, one bullet stripped.
\* (Compared where the text has such a summary or such key points, the
\* summary up to the blanks around it.)
C18_ProviderParsing ==
  \A r \in Requests :
    Parsed(r) =>
      LET expected == Expected(rq[r].service.provider.text)
          fullSummary == SubSeq(rq[r].summary.fullSummary,
                                Len(SummaryPrefix) + 1,
                                Len(rq[r].summary.fullSummary))
      IN  /\ expected.fullSummary # <<>>
               => Trim(fullSummary) = Trim(expected.fullSummary)
          /\ expected.keyPoints # <<>>
               => rq[r].summary.keyPoints = WithEmojis(expected.keyPoints)

\* Request r, idle before, is a generate request taken up in this step.
GenerateTakenUp(r) == pc[r] = "idle" /\ pc'[r] # "idle" /\ rq'[r].op = "generate"

\* C19: a generate request that lacks content or metadata.videoId is answered
\* 400 in the step that takes it up, before any lookup, credit read,
\* generation or write: balances and records are as before, and a request
\* that goes on to the lookup has both fields.
C19_Step ==
  \A r \in Requests :
    GenerateTakenUp(r) =>
      IF pc'[r] = "done"
      THEN /\ resp'[r].status = 400
           /\ credits' = credits
           /\ records' = records
           /\ nextId' = nextId
           /\ rq'[r].adapterCalls = 0
           /\ rq'[r].failed = {}
      ELSE /\ pc'[r] = "g_find"
           /\ Truthy(rq'[r].content)
           /\ rq'[r].metadata.present
           /\ Truthy(rq'[r].metadata.videoId)

C19_BadRequest == [][C19_Step]_vars

\* A generate request was answered 400 while the account has credits and a
\* record is stored, and both are as they were.
C19_Witness ==
  \E r \in Requests :
    /\ Done(r, "generate")
    /\ resp[r].status = 400
    /\ rq[r].adapterCalls = 0
    /\ records # {}
    /\ records = hist[r].recs0
    /\ credits = hist[r].credits0
    /\ credits[rq[r].user] > 0

\* Signup request r has all its fields, its email was registered when the
\* request came in, and no call of the handler threw.
Registered(r) ==
  /\ rq[r].email # "" /\ rq[r].password # "" /\ rq[r].name # ""
  /\ rq[r].failed = {}
  /\ \E a \in DOMAIN hist[r].users0 : hist[r].users0[a].email = rq[r].email

\* C20: a signup with an email already registered is answered 409, no
\* account is created and the accounts there (credentials, credits, refresh
\* tokens) are as before; a successful signup has created exactly one account,
\* with a balance of 10.
C20_SignupConflict ==
  \A r \in Requests :
    Done(r, "signup") =>
      /\ Registered(r)
           => /\ resp[r].status = 409
              /\ users = hist[r].users0
              /\ credits = hist[r].credits0
      /\ resp[r].success
           => \E a \in DOMAIN users \ DOMAIN hist[r].users0 :
                /\ DOMAIN users = DOMAIN hist[r].users0 \cup {a}
                /\ users[a].email = rq[r].email
                /\ credits[a] = SignupCredits
                /\ \A b \in DOMAIN hist[r].users0 :
                     users[b] = hist[r].users0[b] /\ credits[b] = hist[r].credits0[b]

\* Signin request r has both fields, no call of its handler threw, and its
\* email was unknown or its password did not match when it came in.
BadCredentials(r) ==
  /\ rq[r].email # "" /\ rq[r].password # ""
  /\ rq[r].failed = {}
  /\ \A a \in DOMAIN hist[r].users0 :
       hist[r].users0[a].email = rq[r].email
         => ~comparePasswords(rq[r].password, hist[r].users0[a].passwordHash)

\* C21: a signin with an unknown email or with a password that does not
\* match is answered 401 in both cases, issues no tokens and leaves every
\* account's stored refresh token and last login as they were.
C21_InvalidCredentials ==
  \A r \in Requests :
    Done(r, "signin") /\ BadCredentials(r)
      => /\ resp[r].status = 401
         /\ Len(issued) = hist[r].issued0
         /\ users = hist[r].users0

\* The token of request r passes the verification of its endpoint: that of
\* the identity service in the first version of the middleware, verifyToken
\* in the second and in GET /auth/me.
Verifies(r) ==
  IF rq[r].op = "protected" /\ variant = 1
  THEN rq[r].header.issuer = "provider" /\ ~rq[r].header.expired
  ELSE rq[r].header.issuer = "server" /\ ~rq[r].header.expired

Presented(r) == IsBearer(rq[r].header) /\ Verifies(r)

\* C22: a request to an authenticated endpoint without an Authorization
\* header, with a header that is not a Bearer one, or with a token that fails
\* verification is answered 401, goes no further than the check (no lookup
\* of the account, no handler) and changes no account and no summary.
C22_Unauthenticated ==
  \A r \in Requests :
    /\ pc[r] \in {"mw_find", "mw_create", "mw_update", "mw_next", "me_find"}
         => Presented(r)
    /\ pc[r] = "done" /\ rq[r].op \in {"protected", "me"} /\ ~Presented(r)
         => /\ resp[r].status = 401
            /\ rq[r].failed = {}
            /\ users = hist[r].users0
            /\ credits = hist[r].credits0
            /\ records = hist[r].recs0
            /\ Len(issued) = hist[r].issued0

\* A Bearer token the server signed was presented to a summary route after
\* its expiry and answered 401.
C22_Witness ==
  \E r \in Requests :
    /\ Done(r, "protected")
    /\ resp[r].status = 401
    /\ IsBearer(rq[r].header)
    /\ rq[r].header.issuer = "server"
    /\ rq[r].header.expired
    /\ variant = 2

\* Request r came to an endpoint that verifies with verifyToken, bearing an
\* access token that a generateTokens call made for an account, before the
\* token's expiry.
BearsIssued(r) ==
  /\ rq[r].op = "me" \/ (rq[r].op = "protected" /\ variant = 2)
  /\ IsBearer(rq[r].header)
  /\ rq[r].header.issuer = "server"
  /\ rq[r].header.issue \in 1..Len(issued)
  /\ ~rq[r].header.expired

\* C23: an access token issued to an account is accepted by verifyToken, by
\* the middleware and by GET /auth/me until its expiry, whatever signins and
\* refreshes of the account came after it: such a request is refused only
\* when the lookup of the account threw.
C23_AccessTokenStands ==
  \A r \in Requests :
    BearsIssued(r) =>
      /\ verifyToken(rq[r].header) = ClaimsOf(issued[rq[r].header.issue])
      /\ pc[r] = "done" => \/ rq[r].op = "me" /\ resp[r].status = 200
                           \/ resp[r].status = 500 /\ rq[r].failed = {"find"}

\* The middleware let through the access token of the first generateTokens
\* call after the account's refresh token was replaced by a later one.
C23_Witness ==
  \E r \in Requests :
    /\ pc[r] = "mw_next"
    /\ BearsIssued(r)
    /\ rq[r].header.issue = 1
    /\ users[rq[r].user].refreshToken > 1

\* Request r has been answered with a newly generated summary.
NewlyGenerated(r) ==
  Done(r, "generate") /\ resp[r].status = 200 /\ rq[r].adapterCalls > 0

\* The step that answers request r with a newly generated summary reports
\* max(0, b - 1) for the balance b read in the credit check.
C24_Step ==
  \A r \in Requests :
    pc[r] = "g_persist" /\ pc'[r] = "done"
      => resp'[r].creditsRemaining = Max(0, rq[r].userCredits - 1)

\* C24: creditsRemaining of a successful new generation is max(0, b - 1) for
\* the balance b read in the credit check and, no other request running, it
\* is the account's stored balance when the response is sent.
C24_CreditsRemaining ==
  /\ [][C24_Step]_vars
  /\ [](\A r \in Requests :
          NewlyGenerated(r) => resp[r].creditsRemaining = credits[rq[r].user])

\* Request r is a read (the list, one summary, its transcript) and a
\* persistence call of its handler threw.
ReadFailed(r) ==
  /\ pc[r] = "done"
  /\ rq[r].op \in {"list", "get", "transcript"}
  /\ rq[r].failed # {}

\* C25: a persistence error on a read path changes no state and is answered
\* with success: false in the body and no payload but the default one: for
\* the list, summaries [], total 0, page 1, limit 10.
C25_ReadFailure ==
  \A r \in Requests :
    ReadFailed(r) =>
      /\ records = hist[r].recs0
      /\ credits = hist[r].credits0
      /\ users = hist[r].users0
      /\ ~resp[r].success
      /\ ~resp[r].errorOnly
      /\ resp[r].summary = NoSummary
      /\ resp[r].transcript = <<>>
      /\ rq[r].op = "list"
           => /\ resp[r].summaries = <<>>
              /\ resp[r].total = 0
              /\ resp[r].page = 1
              /\ resp[r].limit = 10

InsertsRow(r) ==
  /\ SaveRun(r)
  /\ resp'[r].status = 200
  /\ Cardinality(records') = Cardinality(records) + 1
  /\ \E row \in records' \ records :
       row.userId = rq[r].user /\ row.videoUrl = rq[r].videoUrl

\* C27: the store itself rejects no insert: a save request whose lookup missed
\* (or that makes none) and that is about to create its row can always do so,
\* whatever rows of its (account, videoUrl) were stored in the meantime; so
\* two concurrent requests whose lookups both miss before either insert leave
\* two rows of the pair.
C27_SoftUniqueness ==
  \A r \in Requests :
    (pc[r] = "s_create" /\ nextId < MaxRecords) => ENABLED InsertsRow(r)

\* Two concurrent save requests of the second version that both began on an
\* empty table and both inserted: two rows of one (account, videoUrl).
C27_Witness ==
  /\ variant = 2
  /\ \A r \in Requests :
       /\ pc[r] = "done" /\ rq[r].op = "save" /\ resp[r].status = 200
       /\ hist[r].recs0 = {}
  /\ Cardinality(records) = 2
  /\ \A row \in records :
       \A r \in Requests :
         row.userId = rq[r].user /\ row.videoUrl = rq[r].videoUrl

\* The generate request of slot r calls the adapter in this step.
InvokesAdapter(r) ==
  /\ rq[r].op = "generate"
  /\ rq'[r].adapterCalls > rq[r].adapterCalls

\* The generate request of slot r debits the balance or writes a record in
\* this step.
Persists(r) ==
  /\ rq[r].op = "generate"
  /\ pc[r] # pc'[r]
  /\ credits' # credits \/ records' # records

\* The lookup answered and found nothing, and the balance was read and is
\* positive.
LookupMissedAndCreditsPassed(r) ==
  /\ rq[r].failed \cap {"find", "credits"} = {}
  /\ rq[r].userCredits > 0

C28_Step ==
  \A r \in Requests :
    /\ InvokesAdapter(r) =>
         /\ pc[r] = "g_adapter" /\ rq[r].adapterCalls = 0
         /\ LookupMissedAndCreditsPassed(r)
    /\ Persists(r) => pc[r] = "g_persist" /\ rq[r].adapterCalls = 1
    /\ (rq'[r].op = "generate" /\ pc[r] # "done" /\ resp'[r] # resp[r]) =>
         resp[r] = NoResp /\ pc'[r] = "done"

\* C28: a generate request calls the adapter only after its lookup of the
\* existing record missed and its credit check passed, debits and writes
\* only after the adapter has returned, and is answered once.
C28_GenerateOrder == [][C28_Step]_vars

\* The rows of one (account, videoUrl).
RowsOfPair(userId, videoUrl) ==
  {row \in records : row.userId = userId /\ row.videoUrl = videoUrl}

\* C29: when requests are served one after the other, the table never holds
\* two rows of one (account, videoUrl).
C29_OneRowPerPair ==
  \A row \in records : Cardinality(RowsOfPair(row.userId, row.videoUrl)) = 1

\* The same for the second version of the router with every lookup answered.
OneRowPerPairSecondVersion ==
  (variant = 2 /\ \A r \in Requests : "find" \notin rq[r].failed)
    => C29_OneRowPerPair

\* The delete request of slot r is past its ownership-matching read of the
\* row and calls the delete.
OwnerDeletes(r, row) ==
  /\ rq[r].op = "delete"
  /\ pc[r] = "d_delete"
  /\ rq[r].id = row.id
  /\ rq[r].user = row.userId
  /\ "find" \notin rq[r].failed

C30_Step ==
  \A row \in records :
    \/ row \in records'
    \/ /\ \A other \in records' : other.id # row.id
       /\ \E r \in Requests : OwnerDeletes(r, row) /\ pc'[r] = "done"

\* C30: a stored row is never changed, and it leaves the table only by the
\* delete of a request of its owner that found it with the read by id and
\* owner.
C30_RecordsImmutable == [][C30_Step]_vars

\* A delete of a row's owner has removed it while another row stays as it
\* was.
C30_Witness ==
  \E r \in Requests :
    /\ Done(r, "delete")
    /\ resp[r].status = 200
    /\ \E row \in hist[r].recs0 \ records :
         row.id = rq[r].id /\ row.userId = rq[r].user
    /\ hist[r].recs0 \cap records # {}

\* This step delivers a newly generated summary to the caller of request r.
DeliversNew(r) ==
  /\ rq[r].op = "generate"
  /\ pc[r] = "g_persist"
  /\ pc'[r] = "done"
  /\ resp'[r].status = 200

\* The newly generated summaries this step delivers to account a.
DeliveredTo(a) == Cardinality({r \in Requests : DeliversNew(r) /\ rq[r].user = a})

C31_Step == \A a \in DOMAIN credits : credits'[a] = credits[a] - DeliveredTo(a)

\* C31: every step leaves every balance as it is, but the step that delivers
\* a newly generated summary, which takes one credit from the caller: the
\* credits an account has spent are the new summaries delivered to it.
C31_DebitPerGeneration == [][C31_Step]_vars

\* Request r is an answered refresh that presented a token stored for an
\* account when it began.
RefreshedStored(r) ==
  /\ Done(r, "refresh")
  /\ \E a \in DOMAIN hist[r].users0 :
       hist[r].users0[a].refreshToken = rq[r].refreshToken

\* Two answered refreshes that presented the same token, stored when each of
\* them began: neither began after the other had replaced it.
SameTokenRace(r, q) ==
  /\ r # q
  /\ RefreshedStored(r)
  /\ RefreshedStored(q)
  /\ rq[r].refreshToken = rq[q].refreshToken

\* C32: of two concurrent refreshes that present the same token at most one
\* is answered with success, and a token returned with success is the one
\* stored for the account when both are answered.
C32_RedeemedOnce ==
  \A r, q \in Requests :
    SameTokenRace(r, q) =>
      /\ ~(resp[r].status = 200 /\ resp[q].status = 200)
      /\ resp[r].status = 200 =>
           users[resp[r].user].refreshToken = resp[r].refreshToken

\* Request q is the third call of the sequence begun by the generate r: r was
\* answered with a new summary, the save stored it, and q, a generate, was
\* answered, no persistence call of either having thrown.
ThirdCall(r, q) ==
  /\ r # q
  /\ NewlyGenerated(r)
  /\ Done(q, "generate")
  /\ hist[q].recs0 # {}
  /\ rq[r].failed = {} /\ rq[q].failed = {}

\* C33: in the second version, generate, save of what was returned, generate,
\* by one account for one video: one credit is taken, one record is left, and
\* the third call answers alreadySaved = true with the title, key points and
\* prose the first call returned.
C33_GenerateSaveGenerate ==
  \A r, q \in Requests :
    ThirdCall(r, q) =>
      /\ resp[q].status = 200
      /\ resp[q].alreadySaved = "true"
      /\ resp[q].summary = resp[r].summary
      /\ credits["A"] = hist[r].bal0 - 1
      /\ Cardinality(records) = 1

\* The rows of the caller's (account, videoUrl) when request r began.
HeldAtStart(r) == Held(hist[r].recs0, rq[r].user, rq[r].videoUrl)

\* C34: in the second version, requests served one after the other, a
\* generate short-circuits exactly when a row of its (account, videoUrl) is
\* stored and the lookup answers; with no such row (never saved, or deleted
\* by the owner) and a positive balance it generates anew and is charged; and
\* with such a row it is never charged, even when its lookup throws.
C34_ShortCircuit ==
  \A r \in Requests :
    (variant = 2 /\ Done(r, "generate") /\ rq[r].videoUrl # <<>>) =>
      /\ ShortCircuited(r) <=>
           (HeldAtStart(r) # {} /\ "find" \notin rq[r].failed)
      /\ (HeldAtStart(r) = {} /\ rq[r].failed = {} /\ hist[r].bal0 > 0
            /\ resp[r].status = 200) =>
           (rq[r].adapterCalls = 1 /\ credits[rq[r].user] = hist[r].bal0 - 1)
      /\ HeldAtStart(r) # {} => credits[rq[r].user] = hist[r].bal0

\* Request r is an answered delete by the owner of a row stored when it
\* began, and no call of its handler failed in the persistence layer.
OwnerDeleted(r) ==
  /\ Done(r, "delete")
  /\ \E row \in hist[r].recs0 : row.id = rq[r].id /\ row.userId = rq[r].user
  /\ rq[r].failed \cap {"find", "delete"} = {}

\* C35: of two concurrent deletes of one row by its owner, one is answered
\* 200 and the other 404, never 500, and the row is gone.
C35_DeleteRace ==
  \A r, q \in Requests :
    (r # q /\ OwnerDeleted(r) /\ OwnerDeleted(q) /\ rq[r].id = rq[q].id) =>
      /\ {resp[r].status, resp[q].status} = {200, 404}
      /\ \A row \in records : row.id # rq[r].id
====
